---------------------------- MODULE Spec2Model ----------------------------
(***************************************************************************)
(* JiraAnalyticsEngine (src/analytics/__init__.py): one engine instance,   *)
(* its two retained model fields, and calls of analyze_issues on it.       *)
(*                                                                         *)
(* Representation.                                                         *)
(*  - A raw issue record is a function from the field names it carries to  *)
(*    strings; NA is Python's None (pandas' missing value of an object     *)
(*    column).                                                             *)
(*  - A batch lists its records in order; equal consecutive records are    *)
(*    held once with their multiplicity n (a run), so that batches of ten  *)
(*    and more rows stay enumerable.  Every pandas operation used by the   *)
(*    engine is row-wise or a count, so a run of n equal rows behaves as n *)
(*    rows.                                                                *)
(*  - A possibly-missing number (NaT, NaN) is <<>> when missing and <<v>>  *)
(*    when present.                                                        *)
(*  - Timestamps are whole hours since 2024-01-01T00:00 UTC, negative in   *)
(*    2023.                                                                *)
(*  - Numbers the code rounds to one decimal are held in tenths (x10).     *)
(***************************************************************************)
EXTENDS Integers, Sequences, FiniteSets, TLC

VARIABLES
    resolution_model,   \* self.resolution_model
    anomaly_detector,   \* self.anomaly_detector
    calls,              \* analyze_issues calls begun on this engine
    issues,             \* argument of the current call
    options,            \* argument of the current call
    df,                 \* the table built by _prepare_dataframe for this call
    results,            \* the results map being assembled / returned
    pc,                 \* position inside analyze_issues
    started,            \* sub-analyses started during the current call, in order
    outcome,            \* "none" | "returned" | "raised"
    exception,          \* the exception that left analyze_issues, "" if none
    at_call             \* history: the two model fields when the call began

vars == <<resolution_model, anomaly_detector, calls, issues, options, df,
          results, pc, started, outcome, exception, at_call>>

---------------------------------------------------------------------------
(* Bounds of the model *)

\* longest batch, in runs
MaxGroups == 2
\* length of a long run of equal records (a run is 1 or BigRun rows long)
BigRun == 9
\* calls of analyze_issues on one engine under SpecReuse
MaxCalls == 2
\* lengths of the two runs that split a batch 40:60
SmallRun == 4
MidRun == 6

---------------------------------------------------------------------------
(* Values *)

NA == "<NA>"
NaN == <<>>
NaT == <<>>

Some(v) == <<v>>
IsNull(x) == x = <<>>
Val(x) == x[1]

\* datetime.now(), held fixed: 2024-04-01T12:00
Now == 2196

\* The timestamps pd.to_datetime can parse, with the instant each denotes.
ParsedTimestamp ==
    [s \in {"2023-03-29T09:00:00Z",
            "2024-01-31T12:00:00Z", "2024-02-01T12:00:00Z",
            "2024-02-15T12:00:00Z", "2024-03-15T12:00:00Z",
            "2024-03-01T00:00:00Z", "2024-03-01T12:00:00Z",
            "2024-03-01T13:00:00Z", "2024-03-02T12:00:00Z",
            "2024-03-28T09:00:00Z", "2024-03-30T12:00:00Z"} |->
        CASE s = "2023-03-29T09:00:00Z" -> -6663
          [] s = "2024-01-31T12:00:00Z" -> 732
          [] s = "2024-02-15T12:00:00Z" -> 1092
          [] s = "2024-03-15T12:00:00Z" -> 1788
          [] s = "2024-02-01T12:00:00Z" -> 756
          [] s = "2024-03-01T00:00:00Z" -> 1440
          [] s = "2024-03-01T12:00:00Z" -> 1452
          [] s = "2024-03-01T13:00:00Z" -> 1453
          [] s = "2024-03-02T12:00:00Z" -> 1476
          [] s = "2024-03-28T09:00:00Z" -> 2097
          [] s = "2024-03-30T12:00:00Z" -> 2148]

\* pd.to_datetime(v, errors='coerce', utc=True) followed by tz_localize(None)
to_datetime(v) ==
    IF v \in DOMAIN ParsedTimestamp THEN Some(ParsedTimestamp[v]) ELSE NaT

\* Timedelta.days of a difference of h hours: the floor of h / 24
days(h) == h \div 24

---------------------------------------------------------------------------
(* Inputs: the issue records and options maps the calls are drawn from *)

Rec(key, summary, description, status, priority, assignee, created, updated) ==
    [key |-> key, summary |-> summary, description |-> description,
     status |-> status, priority |-> priority, assignee |-> assignee,
     created |-> created, updated |-> updated, issue_type |-> "Bug"]

Without(rec, fields) == [f \in (DOMAIN rec) \ fields |-> rec[f]]

\* 31 days old, resolved after 29 days
OldOpen == Rec("K1", "Login fails", "Crash on submit", "Open", "High",
               "alice", "2024-03-01T12:00:00Z", "2024-03-30T12:00:00Z")
\* 4 days old, resolved after 2 days
NewDone == Rec("K2", "Add export", "Great feature", "Done", "Low",
               "bob", "2024-03-28T09:00:00Z", "2024-03-30T12:00:00Z")
\* exactly 30 days old, assignee None, updated before created
Day30 == Rec("K3", "Slow page", "", "In Progress", "Medium",
             NA, "2024-03-02T12:00:00Z", "2024-03-01T00:00:00Z")
\* 30 days and 23 hours old, explicitly Unassigned, never updated
Unowned == Rec("K4", "Typo", "Fix typo", "To Do", "Critical",
               "Unassigned", "2024-03-01T13:00:00Z", NA)
\* every optional field present and None
AllNull == Rec("K5", "Broken build", NA, NA, NA, NA, NA, NA)
\* created cannot be parsed
BadDate == Rec("K6", "Bad import", "Terrible data", "Closed", NA,
               "alice", "not-a-date", "2024-03-30T12:00:00Z")

\* 61 days old; its text scores exactly 0.1
Aged61 == Rec("K7", "Old report", "Slightly good", "In Progress", "Low",
              "carol", "2024-01-31T12:00:00Z", "2024-03-30T12:00:00Z")
\* exactly 60 days old; its text scores exactly -0.1
Aged60 == Rec("K8", "Old draft", "Slightly bad", "To Do", "Low",
              "carol", "2024-02-01T12:00:00Z", NA)
\* summary and description are both the empty string
Blank == Rec("K9", "", "", "Open", "Medium",
             "carol", "2024-03-28T09:00:00Z", "2024-03-30T12:00:00Z")

RecordPool ==
    { OldOpen, NewDone, Day30, Unowned, AllNull, BadDate,
      \* only key and summary
      Without(AllNull, {"description", "status", "priority", "assignee",
                        "created", "updated", "issue_type"}),
      \* no created field
      Without(OldOpen, {"created"}),
      \* no updated field, no issue_type
      Without(OldOpen, {"updated", "issue_type"}),
      Without(NewDone, {"updated", "description", "priority"}),
      \* no key
      Without(NewDone, {"key"}),
      Without(OldOpen, {"key"}),
      \* no summary, no status, no assignee
      Without(Unowned, {"summary", "status", "assignee"}) }

\* the records that also come as a run of BigRun equal rows
BigPool == {OldOpen, NewDone, Unowned, AllNull, Without(NewDone, {"key"})}

Runs == [n : {1}, rec : RecordPool] \cup [n : {BigRun}, rec : BigPool]

RECURSIVE SeqsUpTo(_, _)
SeqsUpTo(S, k) ==
    IF k = 0 THEN {<<>>}
    ELSE LET shorter == SeqsUpTo(S, k - 1)
         IN  shorter \cup {Append(q, x) : q \in shorter, x \in S}

Batches == SeqsUpTo(Runs, MaxGroups)

\* the batches the sub-analyses are called on directly: the runs above, the
\* records at the 60-day and 0.1 boundaries, runs that split a batch 40:60,
\* a long run of records that were never updated, and longer batches of a team of three with unassigned issues
DirectRuns ==
    Runs \cup [n : {1}, rec : {Aged61, Aged60, Blank, Without(Aged61, {"assignee"})}]
         \cup {[n |-> SmallRun, rec |-> Aged61], [n |-> MidRun, rec |-> OldOpen],
               [n |-> BigRun, rec |-> Without(OldOpen, {"updated", "issue_type"})]}
TeamRuns ==
    {[n |-> BigRun, rec |-> OldOpen], [n |-> 1, rec |-> NewDone],
     [n |-> 1, rec |-> Blank], [n |-> BigRun, rec |-> Unowned],
     [n |-> 1, rec |-> Unowned]}
\* issues created in five different weeks of 2024 (5, 7, 9, 11 and 13),
\* one or two a week, the open ones held by three assignees and by nobody,
\* and issues of week 13 of 2023 next to issues of weeks 9 and 13 of 2024
InWeek7 == Rec("K10", "Old report", "", "New", "Low",
               "bob", "2024-02-15T12:00:00Z", NA)
InWeek11 == Rec("K11", "Old draft", "", "Open", "Low",
                NA, "2024-03-15T12:00:00Z", NA)
LastYear == Rec("K12", "Old report", "", "Open", "Low",
                "carol", "2023-03-29T09:00:00Z", NA)
WeekRecords == <<Aged61, InWeek7, OldOpen, InWeek11, NewDone>>
YearRecords == <<OldOpen, NewDone, LastYear>>
TrendCounts == {1, 2}
TrendBatches ==
    {[i \in 1..5 |-> [n |-> c[i], rec |-> WeekRecords[i]]] : c \in [1..5 -> TrendCounts]}
    \cup {[i \in 1..3 |-> [n |-> c[i], rec |-> YearRecords[i]]] : c \in [1..3 -> TrendCounts]}
    \cup {<<[n |-> 1, rec |-> NewDone], [n |-> 1, rec |-> LastYear]>>}
DirectBatches ==
    SeqsUpTo(DirectRuns, MaxGroups) \cup SeqsUpTo(TeamRuns, MaxGroups + 2)
        \cup TrendBatches

OptionKeys == {"enable_sentiment_analysis", "enable_predictive_analytics",
               "enable_bottleneck_detection"}

\* options = None, a map switching any subset of the options off (the empty
\* map among them), or the map switching every option on
OptionsNone == [none |-> TRUE, map |-> <<>>]
OptionMaps ==
    {OptionsNone} \cup
    {[none |-> FALSE, map |-> m] :
        m \in {[k \in K |-> FALSE] : K \in SUBSET OptionKeys}
              \cup {[k \in OptionKeys |-> TRUE]}}

\* the inputs of the calls made one after another on the same engine
ReuseRuns ==
    [n : {1}, rec : {OldOpen, Without(OldOpen, {"key"})}]
        \cup [n : {BigRun}, rec : {NewDone, Without(NewDone, {"key"})}]
ReuseBatches == SeqsUpTo(ReuseRuns, MaxGroups)
ReuseOptions ==
    {OptionsNone,
     [none |-> FALSE, map |-> [k \in {"enable_predictive_analytics"} |-> FALSE]]}

---------------------------------------------------------------------------
(* Tables: [cols |-> column names, rows |-> runs of [n, r]], r a row *)

SumOver(rows, f(_)) ==
    LET RECURSIVE S(_)
        S(i) == IF i = 0 THEN 0 ELSE S(i - 1) + f(rows[i])
    IN  S(Len(rows))

\* len(df)
NRows(t) == SumOver(t.rows, LAMBDA g : g.n)

\* number of rows satisfying P
CountWhere(t, P(_)) == SumOver(t.rows, LAMBDA g : IF P(g.r) THEN g.n ELSE 0)

\* df[P]
Filter(t, P(_)) == [cols |-> t.cols, rows |-> SelectSeq(t.rows, LAMBDA g : P(g.r))]

\* df[col].value_counts().to_dict(): missing values are not counted
value_counts(t, col) ==
    LET vals == {t.rows[i].r[col] : i \in 1..Len(t.rows)} \ {NA}
    IN  [v \in vals |-> CountWhere(t, LAMBDA r : r[col] = v)]

\* df[col] = f(row) for every row
WithColumn(t, col, f(_)) ==
    [cols |-> t.cols \cup {col},
     rows |-> [i \in 1..Len(t.rows) |->
                 [n |-> t.rows[i].n,
                  r |-> [c \in t.cols \cup {col} |->
                           IF c = col THEN f(t.rows[i].r) ELSE t.rows[i].r[c]]]]]

\* pd.DataFrame(issues): the columns are the fields any record carries, and
\* a record lacking a field gets a missing value there
DataFrame(iss) ==
    LET cols == UNION {DOMAIN iss[i].rec : i \in 1..Len(iss)}
    IN  [cols |-> cols,
         rows |-> [i \in 1..Len(iss) |->
                     [n |-> iss[i].n,
                      r |-> [c \in cols |->
                               IF c \in DOMAIN iss[i].rec THEN iss[i].rec[c]
                               ELSE NA]]]]

\* a variant that only creates a missing column and fills no null
CreateOnly(t, col, value) ==
    WithColumn(t, col, LAMBDA r : IF col \in t.cols THEN r[col] ELSE value)

\* a variant that sets the whole column to the default
Overwrite(t, col, value) == WithColumn(t, col, LAMBDA r : value)

\* df[col] = df[col].fillna(value) if the column exists, else df[col] = value
FillOrCreate(t, col, value) ==
    WithColumn(t, col,
               LAMBDA r : IF col \in t.cols /\ r[col] # NA THEN r[col] ELSE value)

\* the date conversion loop of _prepare_dataframe, for one column
ConvertDates(t, col) ==
    IF col \in t.cols THEN WithColumn(t, col, LAMBDA r : to_datetime(r[col]))
    ELSE t

OverdueDays == 30

AddResolutionDays(t) ==
    IF "created" \in t.cols /\ "updated" \in t.cols
    THEN WithColumn(t, "resolution_days",
                    LAMBDA r : IF IsNull(r.created) \/ IsNull(r.updated) THEN NaN
                               ELSE Some(days(Val(r.updated) - Val(r.created))))
    ELSE t

AddAgeDays(t, now) ==
    IF "created" \in t.cols
    THEN WithColumn(t, "age_days",
                    LAMBDA r : IF IsNull(r.created) THEN NaN
                               ELSE Some(days(now - Val(r.created))))
    ELSE WithColumn(t, "age_days", LAMBDA r : Some(0))

\* a comparison with NaN is False
GreaterThan(x, bound) == ~IsNull(x) /\ Val(x) > bound

\* a variant with the comparison age_days >= 30
AddIsOverdueInclusive(t) ==
    WithColumn(t, "is_overdue",
               LAMBDA r : ~IsNull(r.age_days) /\ Val(r.age_days) >= OverdueDays)

AddIsOverdue(t) ==
    WithColumn(t, "is_overdue", LAMBDA r : GreaterThan(r.age_days, OverdueDays))

prepare_dataframe(iss, now) ==
    LET d0 == DataFrame(iss)
        d1 == ConvertDates(ConvertDates(d0, "created"), "updated")
        d2 == AddResolutionDays(d1)
        d3 == AddAgeDays(d2, now)
        d4 == AddIsOverdue(d3)
        d5 == FillOrCreate(d4, "assignee", "Unassigned")
        d6 == FillOrCreate(d5, "priority", "Medium")
        d7 == FillOrCreate(d6, "description", "")
    IN  FillOrCreate(d7, "status", "Open")

---------------------------------------------------------------------------
(* Arithmetic *)

\* p / q (q > 0) rounded to the nearest integer, ties to the even one: what
\* round(x, 1) gives for x = p / (10 q) when x is held exactly
RoundDiv(p, q) ==
    LET f == p \div q
        r == p - f * q
    IN  IF 2 * r < q THEN f
        ELSE IF 2 * r > q THEN f + 1
        ELSE IF f % 2 = 0 THEN f ELSE f + 1

\* the non-missing values of a numeric column
Present(t, col) == Filter(t, LAMBDA r : ~IsNull(r[col]))

SumCol(t, col) == SumOver(t.rows, LAMBDA g : g.n * Val(g.r[col]))

\* the k-th smallest value (k in 1..NRows) of a numeric column without
\* missing values
Kth(t, col, k) ==
    LET vals == {Val(t.rows[i].r[col]) : i \in 1..Len(t.rows)}
        atMost(v) == CountWhere(t, LAMBDA r : Val(r[col]) <= v)
    IN  CHOOSE v \in vals :
            /\ atMost(v) >= k
            /\ \A w \in vals : w < v => atMost(w) < k

\* round(series.mean(), 1) in tenths, for a non-empty column without missing values
MeanX10(t, col) == RoundDiv(10 * SumCol(t, col), NRows(t))

\* round(series.median(), 1) in tenths: the middle value, or the mean of the
\* two middle values
MedianX10(t, col) ==
    LET n == NRows(t)
    IN  IF n % 2 = 1 THEN 10 * Kth(t, col, (n + 1) \div 2)
        ELSE 5 * (Kth(t, col, n \div 2) + Kth(t, col, n \div 2 + 1))

---------------------------------------------------------------------------
(* Sub-analyses.  Each gives the map it returns, or Raise(e) when the      *)
(* exception e leaves it.                                                  *)

Raise(e) == [raised |-> e]
IsRaise(x) == DOMAIN x = {"raised"}
Error(msg) == [error |-> msg]
IsError(x) == DOMAIN x = {"error"}

\* df.empty: no rows or no columns
Empty(t) == NRows(t) = 0 \/ t.cols = {}

\* 'resolution_days' in df.columns and df['resolution_days'].notna().any()
HasResolutionData(t) ==
    "resolution_days" \in t.cols /\ NRows(Present(t, "resolution_days")) > 0

\* a variant that counts a null resolution time as 0: fillna(0)
resolution_nulls_as_zero(t) ==
    WithColumn(t, "resolution_days",
               LAMBDA r : IF IsNull(r.resolution_days) THEN Some(0)
                          ELSE r.resolution_days)

\* df['resolution_days'].dropna()
valid_resolution(t) == Present(t, "resolution_days")

calculate_basic_metrics(t) ==
    IF Empty(t)
    THEN [total_issues |-> 0, status_distribution |-> <<>>,
          priority_distribution |-> <<>>, type_distribution |-> <<>>,
          avg_resolution_days_x10 |-> 0, median_resolution_days_x10 |-> 0,
          assignee_distribution |-> <<>>, overdue_count |-> 0]
    ELSE
    LET total_issues == NRows(t)
        counts(col) == IF col \in t.cols THEN value_counts(t, col) ELSE <<>>
        assignee_counts == counts("assignee")
        unassigned_count ==
            IF "Unassigned" \in DOMAIN assignee_counts
            THEN assignee_counts["Unassigned"] ELSE 0
    IN  [total_issues |-> total_issues,
         status_distribution |-> counts("status"),
         priority_distribution |-> counts("priority"),
         type_distribution |-> counts("issue_type"),
         avg_resolution_days_x10 |->
            IF HasResolutionData(t)
            THEN MeanX10(valid_resolution(t), "resolution_days") ELSE 0,
         median_resolution_days_x10 |->
            IF HasResolutionData(t)
            THEN MedianX10(valid_resolution(t), "resolution_days") ELSE 0,
         assignee_distribution |-> assignee_counts,
         unassigned_percentage_x10 |->
            RoundDiv(1000 * unassigned_count, total_issues),
         overdue_count |->
            IF "is_overdue" \in t.cols
            THEN CountWhere(t, LAMBDA r : r.is_overdue) ELSE 0]

\* Series.dt.hour, .dt.dayofweek (Monday = 0) of an instant
hour(h) == h % 24
dayofweek(h) == (h \div 24) % 7

DayNames == <<"Monday", "Tuesday", "Wednesday", "Thursday", "Friday",
              "Saturday", "Sunday">>

\* max(d, key=d.get) over a map with the integer keys in ascending order:
\* the first key with the largest count
PeakKey(counts) ==
    CHOOSE k \in DOMAIN counts :
        \A j \in DOMAIN counts :
            counts[j] < counts[k] \/ (counts[j] = counts[k] /\ k <= j)

analyze_time_patterns(t) ==
    IF "created" \notin t.cols
    THEN Error("No creation date data available")
    ELSE
    LET dated == Present(t, "created")
        hours == {hour(Val(dated.rows[i].r.created)) : i \in 1..Len(dated.rows)}
        dows == {dayofweek(Val(dated.rows[i].r.created)) : i \in 1..Len(dated.rows)}
        hourly_creation ==
            [k \in hours |-> CountWhere(dated, LAMBDA r : hour(Val(r.created)) = k)]
        daily_creation ==
            [k \in dows |-> CountWhere(dated, LAMBDA r : dayofweek(Val(r.created)) = k)]
        resolved == IF "resolution_days" \in t.cols
                    THEN Present(t, "resolution_days") ELSE Filter(t, LAMBDA r : FALSE)
    IN  \* max() of an empty map
        IF hours = {} THEN Raise("ValueError")
        ELSE [hourly_creation_pattern |-> hourly_creation,
              daily_creation_pattern |->
                 [d \in {DayNames[k + 1] : k \in dows} |->
                    daily_creation[CHOOSE k \in dows : DayNames[k + 1] = d]],
              resolution_time_analysis |->
                 IF NRows(resolved) = 0 THEN <<>>
                 ELSE [resolution_distribution |->
                          [count |-> NRows(resolved),
                           min |-> Kth(resolved, "resolution_days", 1),
                           max |-> Kth(resolved, "resolution_days", NRows(resolved))]],
              peak_creation_hour |-> PeakKey(hourly_creation),
              peak_creation_day |-> DayNames[PeakKey(daily_creation) + 1]]

\* the distinct values of a text column in order of first appearance
\* (Series.unique())
FirstAt(t, col, v) == CHOOSE i \in 1..Len(t.rows) :
                          /\ t.rows[i].r[col] = v
                          /\ \A j \in 1..(i - 1) : t.rows[j].r[col] # v
Unique(t, col) == {t.rows[i].r[col] : i \in 1..Len(t.rows)}

TeamMembers(t) == Unique(t, "assignee") \ {"Unassigned"}

OpenStatuses == {"Open", "In Progress", "To Do"}
DoneStatuses == {"Done", "Closed", "Resolved"}
VelocityWindowDays == 30

analyze_team_performance(t, now) ==
    LET of(a) == Filter(t, LAMBDA r : r.assignee = a)
        \* Series.mean() skips missing values and is NaN when none is left
        avg_resolution(a) ==
            IF "resolution_days" \in t.cols
            THEN IF NRows(Present(of(a), "resolution_days")) = 0 THEN NaN
                 ELSE Some(MeanX10(Present(of(a), "resolution_days"),
                                   "resolution_days"))
            ELSE Some(0)
        open_issues(a) == CountWhere(of(a), LAMBDA r : r.status \in OpenStatuses)
        assignee_metrics ==
            [a \in TeamMembers(t) |->
                [total_assigned |-> NRows(of(a)),
                 open_issues |-> open_issues(a),
                 avg_resolution_days_x10 |-> avg_resolution(a),
                 workload_score |-> NRows(of(a)) + open_issues(a) * 2]]
        \* the key of min(): the average if it is > 0, else +infinity
        positive(a) == GreaterThan(assignee_metrics[a].avg_resolution_days_x10, 0)
        before(a, b) ==
            /\ positive(a)
            /\ (~positive(b) \/ Val(assignee_metrics[a].avg_resolution_days_x10)
                                  < Val(assignee_metrics[b].avg_resolution_days_x10))
        first(a, b) == FirstAt(t, "assignee", a) < FirstAt(t, "assignee", b)
        monthly_velocity ==
            IF "updated" \in t.cols
            THEN CountWhere(t, LAMBDA r :
                     /\ ~IsNull(r.updated)
                     /\ Val(r.updated) >= now - VelocityWindowDays * 24
                     /\ r.status \in DoneStatuses)
            ELSE 0
    IN  [individual_metrics |-> assignee_metrics,
         monthly_velocity |-> monthly_velocity,
         best_performer |->
            IF TeamMembers(t) = {} THEN NA
            ELSE CHOOSE a \in TeamMembers(t) :
                    \A b \in TeamMembers(t) \ {a} :
                        ~before(b, a) /\ (before(a, b) \/ first(a, b)),
         most_overloaded |->
            IF TeamMembers(t) = {} THEN NA
            ELSE CHOOSE a \in TeamMembers(t) :
                    \A b \in TeamMembers(t) \ {a} :
                        \/ assignee_metrics[b].workload_score
                             < assignee_metrics[a].workload_score
                        \/ /\ assignee_metrics[b].workload_score
                                = assignee_metrics[a].workload_score
                           /\ first(a, b),
         team_size |-> Cardinality(TeamMembers(t))]

WorkloadStatuses == {"Open", "In Progress", "To Do", "New"}

\* floor(sqrt(n)) for n >= 0
Isqrt(n) ==
    LET RECURSIVE Between(_, _)
        \* the root is in lo..hi
        Between(lo, hi) ==
            IF lo = hi THEN lo
            ELSE LET mid == (lo + hi + 1) \div 2
                 IN  IF mid * mid <= n THEN Between(mid, hi) ELSE Between(lo, mid - 1)
    IN  Between(0, IF n < 46340 THEN n ELSE 46340)

\* a variant that keeps the unassigned issues in the balance calculation
WithUnassigned(workload) == DOMAIN workload

\* the keys of assigned_workload
AssignedWorkload(workload) == DOMAIN workload \ {"Unassigned"}

\* avg_workload_per_person and workload_std_dev are held in tenths;
\* balance_score is held by balance_rating alone.  With k members, the sum S
\* and the sum of squares Q of their open counts, the mean is S / k and the
\* population deviation is sqrt(V) / k with V = k * Q - S * S, so
\* v > mean + deviation iff k * v - S > 0 and (k * v - S)^2 > V.
analyze_workload_distribution(t) ==
    LET open_issues == Filter(t, LAMBDA r : r.status \in WorkloadStatuses)
        workload == value_counts(open_issues, "assignee")
        assigned == AssignedWorkload(workload)
        k == Cardinality(assigned)
        RECURSIVE Sum(_, _)
        Sum(A, power) ==
            IF A = {} THEN 0
            ELSE LET a == CHOOSE x \in A : TRUE
                 IN  (IF power = 2 THEN workload[a] * workload[a] ELSE workload[a])
                     + Sum(A \ {a}, power)
        S == Sum(assigned, 1)
        V == k * Sum(assigned, 2) - S * S
        above(v) == k * v - S > 0 /\ (k * v - S) * (k * v - S) > V
        below(v) == k * v - S < 0 /\ (k * v - S) * (k * v - S) > V
    IN  IF assigned = {} THEN Error("No assigned issues found")
        ELSE [current_workload |-> workload,
              avg_workload_per_person_x10 |-> RoundDiv(10 * S, k),
              \* round(sqrt(V) / k, 1)
              workload_std_dev_x10 |-> (Isqrt(400 * V) + k) \div (2 * k),
              \* std / avg < 0.3, < 0.6
              balance_rating |->
                 IF 100 * V < 9 * S * S THEN "Good"
                 ELSE IF 100 * V < 36 * S * S THEN "Fair"
                 ELSE "Poor",
              overloaded_members |->
                 [a \in {x \in assigned : above(workload[x])} |-> workload[a]],
              underloaded_members |->
                 [a \in {x \in assigned : below(workload[x])} |-> workload[a]],
              total_open_issues |-> NRows(open_issues)]

\* the calendar year of an instant of 2023 or 2024
year(h) == IF h >= 0 THEN 2024 ELSE 2023

\* the day of the year, from 0
dayofyear(h) == IF h >= 0 THEN h \div 24 ELSE h \div 24 + 365

month(h) ==
    LET d == dayofyear(h)
        leap == IF year(h) = 2024 THEN 1 ELSE 0
        ends == <<31, 59 + leap, 90 + leap, 120 + leap, 151 + leap, 181 + leap,
                  212 + leap, 243 + leap, 273 + leap, 304 + leap, 334 + leap,
                  365 + leap>>
    IN  CHOOSE m \in 1..12 : d < ends[m] /\ (m = 1 \/ d >= ends[m - 1])

\* the period 'YYYY-MM' of an instant, as the number YYYYMM
month_year(h) == year(h) * 100 + month(h)

\* the ISO week number of an instant: 2024-01-01 is a Monday, 2023-01-01 is
\* the Sunday of week 52 of 2022
isoweek(h) ==
    IF h >= 0 THEN dayofyear(h) \div 7 + 1
    ELSE IF dayofyear(h) = 0 THEN 52
    ELSE (dayofyear(h) + 6) \div 7

\* a variant that compares the last week with the first week of all
AllWeeks(weeks) == weeks

\* sorted(weekly_creation.items())[-4:]: the (up to) four highest weeks
RecentWeeks(weeks) == {w \in weeks : Cardinality({v \in weeks : v > w}) < 4}

analyze_trends(t, now) ==
    IF "created" \notin t.cols
    THEN Error("No date data available for trend analysis")
    ELSE
    LET dated == Present(t, "created")
        weeks == {isoweek(Val(dated.rows[i].r.created)) : i \in 1..Len(dated.rows)}
        weekly_creation ==
            [w \in weeks |-> CountWhere(dated, LAMBDA r : isoweek(Val(r.created)) = w)]
        months == {month_year(Val(dated.rows[i].r.created)) : i \in 1..Len(dated.rows)}
        monthly_trend ==
            [m \in months |->
                CountWhere(dated, LAMBDA r : month_year(Val(r.created)) = m)]
        recent == RecentWeeks(weeks)
        last == CHOOSE w \in recent : \A v \in recent : v <= w
        first == CHOOSE w \in recent : \A v \in recent : w <= v
    IN  [weekly_creation_trend |-> weekly_creation,
         monthly_creation_trend |-> monthly_trend,
         trend_direction |->
            IF Cardinality(weeks) >= 2
            THEN IF weekly_creation[last] > weekly_creation[first]
                 THEN "Increasing" ELSE "Decreasing"
            ELSE "Stable",
         current_week_issues |->
            IF isoweek(now) \in weeks THEN weekly_creation[isoweek(now)] ELSE 0]

\* the values of a text column ordered as value_counts() lists them: by
\* falling count, equal counts in order of first appearance
ByCount(t, col) ==
    LET vals == Unique(t, col) \ {NA}
        n(v) == CountWhere(t, LAMBDA r : r[col] = v)
        ahead(w, v) == n(w) > n(v) \/ (n(w) = n(v) /\ FirstAt(t, col, w) < FirstAt(t, col, v))
    IN  [i \in 1..Cardinality(vals) |->
            CHOOSE v \in vals : Cardinality({w \in vals : ahead(w, v)}) = i - 1]

\* blob.sentiment.polarity of "<summary> <description>", in thousandths.
\* TextBlob is a library outside the repository: the table gives a score to
\* each text the records use, two of them at the thresholds 0.1 and -0.1
polarity_x1000(summary, description) ==
    IF description = "Great feature" THEN 800
    ELSE IF description = "Terrible data" THEN -1000
    ELSE IF description = "Slightly good" THEN 100
    ELSE IF description = "Slightly bad" THEN -100
    ELSE 0

PositiveAboveX1000 == 100
NegativeBelowX1000 == -100
GoodMoodAboveX1000 == 50
ConcerningBelowX1000 == -50

\* row.get('summary', ''): '' when the table has no such column
RowGet(t, r, col) == IF col \in t.cols THEN r[col] ELSE ""

\* the polarity appended for a row; f"{None}" is not empty, so only empty
\* strings make text.strip() empty
RowPolarity(t, r) ==
    IF RowGet(t, r, "summary") = "" /\ RowGet(t, r, "description") = "" THEN 0
    ELSE polarity_x1000(RowGet(t, r, "summary"), RowGet(t, r, "description"))

\* a variant with the thresholds included: >= 0.1 and <= -0.1
SentimentLabelInclusive(p) ==
    IF p >= PositiveAboveX1000 THEN "Positive"
    ELSE IF p <= NegativeBelowX1000 THEN "Negative"
    ELSE "Neutral"

SentimentLabel(p) ==
    IF p > PositiveAboveX1000 THEN "Positive"
    ELSE IF p < NegativeBelowX1000 THEN "Negative"
    ELSE "Neutral"

analyze_sentiment(t) ==
    LET scored == WithColumn(WithColumn(t, "sentiment_polarity",
                                        LAMBDA r : RowPolarity(t, r)),
                             "sentiment",
                             LAMBDA r : SentimentLabel(RowPolarity(t, r)))
        total == SumOver(scored.rows, LAMBDA g : g.n * g.r.sentiment_polarity)
        n == NRows(scored)
    IN  \* nsmallest(...)[['key', 'summary', 'sentiment_polarity']]
        IF "key" \notin t.cols \/ "summary" \notin t.cols THEN Raise("KeyError")
        ELSE [sentiment_distribution |-> value_counts(scored, "sentiment"),
              avg_sentiment_score_x1000 |-> RoundDiv(total, n),
              stress_indicators |->
                 CountWhere(scored, LAMBDA r : r.sentiment = "Negative"),
              team_mood |->
                 IF total > GoodMoodAboveX1000 * n THEN "Good"
                 ELSE IF total > ConcerningBelowX1000 * n THEN "Neutral"
                 ELSE "Concerning"]

StatusShareMedium == 40
StatusShareHigh == 60
OverloadMedium == 2
OverloadHigh == 3
AgingDays == 60
DelayDays == 14
HighPriorities == {"High", "Critical", "Urgent"}
ManyBottlenecks == 3

\* the advisory string of one flag; the strings for a status and for an
\* assignee quote the flag's description, held here as its subject
Recommendation(b) ==
    CASE b.type = "Status Bottleneck" ->
            [advice |-> "Review workflow - consider breaking down tasks",
             about |-> b.subject]
      [] b.type = "Assignee Overload" ->
            [advice |-> "Redistribute workload", about |-> b.subject]
      [] b.type = "Aging Issues" ->
            [advice |-> "Review and prioritize old issues - consider closing obsolete ones",
             about |-> ""]
      [] b.type = "High Priority Delays" ->
            [advice |-> "Urgent: Review high priority issues that are delayed",
             about |-> ""]

SprintReview ==
    [advice |-> "Consider sprint planning review to address multiple bottlenecks",
     about |-> ""]

\* the general recommendation already at 3 flags
RecommendationsFromThree(bottlenecks) ==
    LET each == [i \in 1..Len(bottlenecks) |-> Recommendation(bottlenecks[i])]
    IN  IF Len(bottlenecks) >= ManyBottlenecks
        THEN Append(each, SprintReview)
        ELSE each

generate_bottleneck_recommendations(bottlenecks) ==
    LET each == [i \in 1..Len(bottlenecks) |-> Recommendation(bottlenecks[i])]
    IN  IF Len(bottlenecks) > ManyBottlenecks
        THEN Append(each, SprintReview)
        ELSE each

\* a variant that takes the severity from the 40% threshold
StatusSeverityFromMedium(count, total) ==
    IF count * 100 > StatusShareMedium * total THEN "High" ELSE "Medium"

\* "High" if percentage > 60 else "Medium", with percentage =
\* count / total * 100 compared exactly
StatusSeverity(count, total) ==
    IF count * 100 > StatusShareHigh * total THEN "High" ELSE "Medium"

detect_bottlenecks(t) ==
    LET total_issues == NRows(t)
        n(col, v) == CountWhere(t, LAMBDA r : r[col] = v)
        statuses == ByCount(t, "status")
        \* percentage = count / total * 100, compared exactly
        status_flags ==
            [i \in 1..Len(statuses) |->
                [type |-> "Status Bottleneck", subject |-> statuses[i],
                 severity |-> StatusSeverity(n("status", statuses[i]), total_issues),
                 affected_count |-> n("status", statuses[i])]]
        status_hit(f) == /\ f.affected_count * 100 > StatusShareMedium * total_issues
                         /\ f.subject \notin DoneStatuses
        team == Cardinality(TeamMembers(t))
        assignees == ByCount(t, "assignee")
        \* count > avg_per_assignee * k with avg_per_assignee = len(df) / team
        assignee_flags ==
            [i \in 1..Len(assignees) |->
                [type |-> "Assignee Overload", subject |-> assignees[i],
                 severity |-> IF n("assignee", assignees[i]) * team
                                   > OverloadHigh * total_issues
                              THEN "High" ELSE "Medium",
                 affected_count |-> n("assignee", assignees[i])]]
        assignee_hit(f) == /\ f.subject # "Unassigned"
                           /\ f.affected_count * team > OverloadMedium * total_issues
        old == CountWhere(t, LAMBDA r : GreaterThan(r.age_days, AgingDays))
        delayed == CountWhere(t, LAMBDA r : /\ r.priority \in HighPriorities
                                            /\ GreaterThan(r.age_days, DelayDays))
        bottlenecks ==
            SelectSeq(status_flags, status_hit)
            \o SelectSeq(assignee_flags, assignee_hit)
            \o (IF old > 0
                THEN <<[type |-> "Aging Issues", subject |-> "",
                        severity |-> "Medium", affected_count |-> old]>>
                ELSE <<>>)
            \o (IF delayed > 0
                THEN <<[type |-> "High Priority Delays", subject |-> "",
                        severity |-> "Critical", affected_count |-> delayed]>>
                ELSE <<>>)
    IN  \* len(df) / len([...]) with every assignee Unassigned
        IF team = 0 THEN Raise("ZeroDivisionError")
        ELSE [bottlenecks_detected |-> bottlenecks,
              bottleneck_count |-> Len(bottlenecks),
              critical_count |->
                 Len(SelectSeq(bottlenecks, LAMBDA b : b.severity = "Critical")),
              recommendations |-> generate_bottleneck_recommendations(bottlenecks)]

---------------------------------------------------------------------------
(* The retained models.  A fitted model is known by what it was fitted on; *)
(* what it predicts is a function of the model and the table it scores.    *)

NoModel == [kind |-> "None"]

MinRowsForPrediction == 10
BlockerAgeDays == 30

\* four times the 0.75-quantile (linear interpolation) of a non-empty
\* numeric column without missing values
Quantile75X4(t, col) ==
    LET pos4 == 3 * (NRows(t) - 1)
        lo == pos4 \div 4 + 1
        part == pos4 % 4
    IN  IF part = 0 THEN 4 * Kth(t, col, lo)
        ELSE (4 - part) * Kth(t, col, lo) + part * Kth(t, col, lo + 1)

\* features_df['is_blocker']
is_blocker(t, r) ==
    IF "resolution_days" \in t.cols
    THEN \* a comparison with a missing value, or with the quantile of
         \* nothing, is False
         /\ ~IsNull(r.resolution_days)
         /\ 4 * Val(r.resolution_days)
              > Quantile75X4(Present(t, "resolution_days"), "resolution_days")
    ELSE GreaterThan(r.age_days, BlockerAgeDays)

\* Series.str.len() of the summaries the records use
StrLen(s) ==
    CASE s = "Login fails" -> 11
      [] s = "Add export" -> 10
      [] s = "Slow page" -> 9
      [] s = "Typo" -> 4
      [] s = "Broken build" -> 12
      [] s = "Bad import" -> 10
      [] s = "Old report" -> 10
      [] s = "Old draft" -> 9
      [] s = "" -> 0

\* features_df['summary'].str.len().fillna(0)
summary_length(r) == IF r.summary = NA THEN 0 ELSE StrLen(r.summary)

\* features_df['priority'].map(priority_map).fillna(2)
priority_score(p) ==
    CASE p = "Low" -> 1
      [] p = "Medium" -> 2
      [] p = "High" -> 3
      [] p = "Critical" -> 4
      [] p = "Urgent" -> 5
      [] OTHER -> 2

\* a numeric column with fillna(0)
Filled(x) == IF IsNull(x) THEN 0 ELSE Val(x)

\* RandomForestRegressor(n_estimators=50, random_state=42) fitted on the split
\* (random_state=42) of X and y: the fixed seeds make the fitted model a
\* function of X and y, which stand for it here
FitResolutionModel(t) ==
    [kind |-> "RandomForestRegressor",
     X_y |-> [i \in 1..Len(t.rows) |->
                LET r == t.rows[i].r
                IN  [n |-> t.rows[i].n,
                     age_days |-> Filled(r.age_days),
                     priority_score |-> priority_score(r.priority),
                     summary_length |-> summary_length(r),
                     has_description |-> r.description # "",
                     is_blocker |-> is_blocker(t, r)]]]

\* a variant that trains only when the engine holds no model yet
ReusedResolutionModel(held, t) ==
    IF held = NoModel THEN FitResolutionModel(t) ELSE held

\* self.resolution_model after the training step, which is also the model
\* the table is scored with: a new one, whatever the engine held before
TrainedResolutionModel(held, t) == FitResolutionModel(t)

\* IsolationForest(contamination=0.1, random_state=42) fitted on X
FitAnomalyDetector(t) ==
    [kind |-> "IsolationForest",
     X |-> [i \in 1..Len(t.rows) |->
              LET r == t.rows[i].r
              IN  [n |-> t.rows[i].n,
                   age_days |-> Filled(r.age_days),
                   resolution_days |->
                      IF "resolution_days" \in t.cols
                      THEN Some(Filled(r.resolution_days)) ELSE <<>>,
                   summary_length |-> summary_length(r)]]]

\* self.anomaly_detector after fit_predict, which also labels the rows
TrainedAnomalyDetector(held, t) == FitAnomalyDetector(t)

\* a variant that takes the later limit of 5 rows for the first one
TooFewRowsForSplit(t) == NRows(t) < 5

\* len(df) < 10
TooFewRows(t) == NRows(t) < MinRowsForPrediction

\* a variant that only looks for a missing positive class
NoPositives(t) == CountWhere(t, LAMBDA r : is_blocker(t, r)) = 0

\* not len(np.unique(y)) > 1
OneClass(t) ==
    LET positives == CountWhere(t, LAMBDA r : is_blocker(t, r))
    IN  positives = 0 \/ positives = NRows(t)

\* [result |-> the map returned, model |-> self.resolution_model afterwards]
predict_potential_blockers(t, held) ==
    LET model == TrainedResolutionModel(held, t)
    IN  IF TooFewRows(t)
        THEN [result |-> Error("Insufficient data for predictions"), model |-> held]
        ELSE IF "summary" \notin t.cols
        THEN [result |-> Error("Prediction failed: 'summary'"), model |-> held]
        ELSE IF NRows(t) < 5
        THEN [result |-> Error("Insufficient feature data"), model |-> held]
        ELSE IF OneClass(t)
        THEN [result |-> Error("Insufficient class diversity for prediction"),
              model |-> held]
        ELSE IF "key" \notin t.cols
        THEN \* nlargest(...)[['key', ...]] fails after the fit
             [result |-> Error("Prediction failed: \"['key'] not in index\""),
              model |-> model]
        ELSE [result |-> [potential_blockers_scored_by |-> model,
                          model_accuracy |-> "Trained successfully",
                          feature_importance_of |-> model,
                          predictions_made |-> NRows(t)],
              model |-> model]

\* [result |-> the map returned, model |-> self.anomaly_detector afterwards]
detect_anomalies(t, held) ==
    LET detector == TrainedAnomalyDetector(held, t)
    IN  IF "summary" \notin t.cols
        THEN [result |-> Error("Anomaly detection failed: 'summary'"), model |-> held]
        ELSE IF "key" \notin t.cols
        THEN [result |-> Error("Anomaly detection failed: \"['key'] not in index\""),
              model |-> detector]
        ELSE [result |-> [anomalies_labelled_by |-> detector,
                          rows_labelled |-> NRows(t)],
              model |-> detector]

---------------------------------------------------------------------------
(* Columns the sub-analyses add to the shared table *)

\* the calendar month of an instant of 2024
OfCreated(r, f(_)) == IF IsNull(r.created) THEN NaN ELSE Some(f(Val(r.created)))

time_columns(t) ==
    WithColumn(WithColumn(WithColumn(t,
        "created_hour", LAMBDA r : OfCreated(r, hour)),
        "created_day_of_week", LAMBDA r : OfCreated(r, dayofweek)),
        "created_month", LAMBDA r : OfCreated(r, month))

trend_columns(t) ==
    WithColumn(WithColumn(t,
        "week", LAMBDA r : OfCreated(r, isoweek)),
        "month_year", LAMBDA r : OfCreated(r, month_year))

sentiment_columns(t) ==
    WithColumn(WithColumn(t,
        "sentiment", LAMBDA r : SentimentLabel(RowPolarity(t, r))),
        "sentiment_polarity", LAMBDA r : RowPolarity(t, r))

anomaly_columns(t, detector) ==
    WithColumn(WithColumn(t,
        "summary_length", summary_length),
        "is_anomaly", LAMBDA r : detector)

---------------------------------------------------------------------------
(* analyze_issues *)

\* options.get(key, True), options = None standing for the all-True map
get(opts, key) ==
    IF opts.none THEN TRUE
    ELSE IF key \in DOMAIN opts.map THEN opts.map[key] ELSE TRUE

\* a variant without the test for an empty batch
NoIssuesUntested(iss) == FALSE

\* `not issues`
NoIssues(iss) == Len(iss) = 0

NoTable == [cols |-> {}, rows |-> <<>>]

Put(m, k, v) == [x \in DOMAIN m \cup {k} |-> IF x = k THEN v ELSE m[x]]

\* the conditional analyses, in the order analyze_issues tests them
Conditional ==
    << <<"sentiment_analysis", "enable_sentiment_analysis">>,
       <<"bottleneck_detection", "enable_bottleneck_detection">>,
       <<"predictive_insights", "enable_predictive_analytics">> >>

\* a variant that goes to the last enabled conditional analysis first
LastEnabled(opts, done) ==
    LET rest == {i \in (done + 1)..Len(Conditional) : get(opts, Conditional[i][2])}
    IN  IF rest = {} THEN "return"
        ELSE Conditional[CHOOSE i \in rest : \A j \in rest : i >= j][1]

\* the next conditional analysis after the first `done` tests, or the return
NextEnabled(opts, done) ==
    LET rest == {i \in (done + 1)..Len(Conditional) : get(opts, Conditional[i][2])}
    IN  IF rest = {} THEN "return"
        ELSE Conditional[CHOOSE i \in rest : \A j \in rest : i <= j][1]

\* a sub-analysis has given `value`: store it under `key` and go on to
\* `next`, or let its exception leave analyze_issues
Continue(key, value, next) ==
    /\ started' = Append(started, key)
    /\ IF IsRaise(value)
       THEN /\ results' = <<>>
            /\ outcome' = "raised"
            /\ exception' = value.raised
            /\ pc' = "idle"
       ELSE /\ results' = Put(results, key, value)
            /\ pc' = next
            /\ UNCHANGED <<outcome, exception>>

\* lines 44-57: the empty batch is answered at once; otherwise the table is
\* prepared
Begin(batches, maps, limit) ==
    /\ pc = "idle"
    /\ calls < limit
    /\ at_call' = <<resolution_model, anomaly_detector>>
    /\ \E iss \in batches, opts \in maps :
        /\ issues' = iss
        /\ options' = opts
        /\ calls' = calls + 1
        /\ started' = <<>>
        /\ exception' = ""
        /\ IF NoIssues(iss)
           THEN /\ results' = Error("No issues to analyze")
                /\ outcome' = "returned"
                /\ pc' = "idle"
                /\ df' = NoTable
           ELSE /\ results' = <<>>
                /\ outcome' = "none"
                /\ pc' = "basic_metrics"
                /\ df' = prepare_dataframe(iss, Now)
    /\ UNCHANGED <<resolution_model, anomaly_detector>>

BasicMetrics ==
    /\ pc = "basic_metrics"
    /\ Continue("basic_metrics", calculate_basic_metrics(df), "time_analysis")
    /\ UNCHANGED <<resolution_model, anomaly_detector, calls, issues, options, df, at_call>>

TimePatterns ==
    /\ pc = "time_analysis"
    /\ Continue("time_analysis", analyze_time_patterns(df), "team_performance")
    /\ df' = IF "created" \in df.cols THEN time_columns(df) ELSE df
    /\ UNCHANGED <<resolution_model, anomaly_detector, calls, issues, options, at_call>>

TeamPerformance ==
    /\ pc = "team_performance"
    /\ Continue("team_performance", analyze_team_performance(df, Now),
                "workload_distribution")
    /\ UNCHANGED <<resolution_model, anomaly_detector, calls, issues, options, df, at_call>>

WorkloadDistribution ==
    /\ pc = "workload_distribution"
    /\ Continue("workload_distribution", analyze_workload_distribution(df),
                "trend_analysis")
    /\ UNCHANGED <<resolution_model, anomaly_detector, calls, issues, options, df, at_call>>

Trends ==
    /\ pc = "trend_analysis"
    /\ Continue("trend_analysis", analyze_trends(df, Now), NextEnabled(options, 0))
    /\ df' = IF "created" \in df.cols THEN trend_columns(df) ELSE df
    /\ UNCHANGED <<resolution_model, anomaly_detector, calls, issues, options, at_call>>

Sentiment ==
    /\ pc = "sentiment_analysis"
    /\ Continue("sentiment_analysis", analyze_sentiment(df), NextEnabled(options, 1))
    /\ df' = sentiment_columns(df)
    /\ UNCHANGED <<resolution_model, anomaly_detector, calls, issues, options, at_call>>

Bottlenecks ==
    /\ pc = "bottleneck_detection"
    /\ Continue("bottleneck_detection", detect_bottlenecks(df), NextEnabled(options, 2))
    /\ UNCHANGED <<resolution_model, anomaly_detector, calls, issues, options, df, at_call>>

PredictBlockers ==
    /\ pc = "predictive_insights"
    /\ LET got == predict_potential_blockers(df, resolution_model)
       IN  /\ Continue("predictive_insights", got.result, "anomaly_detection")
           /\ resolution_model' = got.model
    /\ UNCHANGED <<anomaly_detector, calls, issues, options, df, at_call>>

Anomalies ==
    /\ pc = "anomaly_detection"
    /\ LET got == detect_anomalies(df, anomaly_detector)
       IN  /\ Continue("anomaly_detection", got.result, "return")
           /\ anomaly_detector' = got.model
           /\ df' = IF "summary" \in df.cols /\ "key" \in df.cols
                    THEN anomaly_columns(df, got.model)
                    ELSE df
    /\ UNCHANGED <<resolution_model, calls, issues, options, at_call>>

\* line 79
Return ==
    /\ pc = "return"
    /\ pc' = "idle"
    /\ outcome' = "returned"
    /\ UNCHANGED <<resolution_model, anomaly_detector, calls, issues, options,
                   df, results, started, exception, at_call>>

Init ==
    /\ resolution_model = NoModel
    /\ anomaly_detector = NoModel
    /\ calls = 0
    /\ issues = <<>>
    /\ options = OptionsNone
    /\ df = NoTable
    /\ results = <<>>
    /\ pc = "idle"
    /\ started = <<>>
    /\ outcome = "none"
    /\ exception = ""
    /\ at_call = <<NoModel, NoModel>>

Steps ==
    \/ BasicMetrics
    \/ TimePatterns
    \/ TeamPerformance
    \/ WorkloadDistribution
    \/ Trends
    \/ Sentiment
    \/ Bottlenecks
    \/ PredictBlockers
    \/ Anomalies
    \/ Return

\* one analyze_issues call on a new engine
Next == Begin(Batches, OptionMaps, 1) \/ Steps

Spec == Init /\ [][Next]_vars

\* up to MaxCalls calls, one after another, on the same engine
NextReuse == Begin(ReuseBatches, ReuseOptions, MaxCalls) \/ Steps

SpecReuse == Init /\ [][NextReuse]_vars

---------------------------------------------------------------------------
(* The sub-analyses called on their own, each on a table that              *)
(* _prepare_dataframe built, the empty batch's table among them             *)

\* the engine they are called on: new, or as a call of analyze_issues on
\* ten rows of both classes left it
EarlierTable ==
    prepare_dataframe(<<[n |-> 1, rec |-> OldOpen], [n |-> BigRun, rec |-> NewDone]>>,
                      Now)
EngineStates ==
    {<<NoModel, NoModel>>,
     <<FitResolutionModel(EarlierTable), FitAnomalyDetector(EarlierTable)>>}

InitDirect ==
    /\ \E e \in EngineStates :
          /\ resolution_model = e[1]
          /\ anomaly_detector = e[2]
          /\ at_call = e
    /\ calls = 0
    /\ issues = <<>>
    /\ options = OptionsNone
    /\ df = NoTable
    /\ results = <<>>
    /\ pc = "idle"
    /\ started = <<>>
    /\ outcome = "none"
    /\ exception = ""

\* df = self._prepare_dataframe(issues)
Prepare ==
    /\ pc = "idle"
    /\ calls = 0
    /\ \E iss \in DirectBatches :
          /\ issues' = iss
          /\ df' = prepare_dataframe(iss, Now)
    /\ calls' = 1
    /\ pc' = "prepared"
    /\ UNCHANGED <<resolution_model, anomaly_detector, options, results,
                   started, outcome, exception, at_call>>

\* one sub-analysis called on df has given `value`, or has raised
Called(key, value) ==
    /\ pc = "prepared"
    /\ pc' = "idle"
    /\ started' = <<key>>
    /\ IF IsRaise(value)
       THEN /\ results' = <<>>
            /\ outcome' = "raised"
            /\ exception' = value.raised
       ELSE /\ results' = Put(<<>>, key, value)
            /\ outcome' = "returned"
            /\ exception' = ""

CallBasicMetrics ==
    /\ Called("basic_metrics", calculate_basic_metrics(df))
    /\ UNCHANGED <<resolution_model, anomaly_detector, calls, issues, options, df, at_call>>

CallTimePatterns ==
    /\ Called("time_analysis", analyze_time_patterns(df))
    /\ df' = IF "created" \in df.cols THEN time_columns(df) ELSE df
    /\ UNCHANGED <<resolution_model, anomaly_detector, calls, issues, options, at_call>>

CallTeamPerformance ==
    /\ Called("team_performance", analyze_team_performance(df, Now))
    /\ UNCHANGED <<resolution_model, anomaly_detector, calls, issues, options, df, at_call>>

CallWorkloadDistribution ==
    /\ Called("workload_distribution", analyze_workload_distribution(df))
    /\ UNCHANGED <<resolution_model, anomaly_detector, calls, issues, options, df, at_call>>

CallTrends ==
    /\ Called("trend_analysis", analyze_trends(df, Now))
    /\ df' = IF "created" \in df.cols THEN trend_columns(df) ELSE df
    /\ UNCHANGED <<resolution_model, anomaly_detector, calls, issues, options, at_call>>

CallSentiment ==
    /\ Called("sentiment_analysis", analyze_sentiment(df))
    /\ df' = sentiment_columns(df)
    /\ UNCHANGED <<resolution_model, anomaly_detector, calls, issues, options, at_call>>

CallBottlenecks ==
    /\ Called("bottleneck_detection", detect_bottlenecks(df))
    /\ UNCHANGED <<resolution_model, anomaly_detector, calls, issues, options, df, at_call>>

CallPredictBlockers ==
    /\ LET got == predict_potential_blockers(df, resolution_model)
       IN  /\ Called("predictive_insights", got.result)
           /\ resolution_model' = got.model
    /\ UNCHANGED <<anomaly_detector, calls, issues, options, df, at_call>>

CallAnomalies ==
    /\ LET got == detect_anomalies(df, anomaly_detector)
       IN  /\ Called("anomaly_detection", got.result)
           /\ anomaly_detector' = got.model
           /\ df' = IF "summary" \in df.cols /\ "key" \in df.cols
                    THEN anomaly_columns(df, got.model)
                    ELSE df
    /\ UNCHANGED <<resolution_model, calls, issues, options, at_call>>

NextDirect ==
    \/ Prepare
    \/ CallBasicMetrics
    \/ CallTimePatterns
    \/ CallTeamPerformance
    \/ CallWorkloadDistribution
    \/ CallTrends
    \/ CallSentiment
    \/ CallBottlenecks
    \/ CallPredictBlockers
    \/ CallAnomalies

SpecDirect == InitDirect /\ [][NextDirect]_vars

---------------------------------------------------------------------------
(* Properties, stated over the arguments of the call (issues, options) and  *)
(* what the call left behind.                                              *)

Finished == pc = "idle" /\ calls > 0
NonEmptyCall == calls > 0 /\ Len(issues) > 0

\* whether the caller switched the option on: unset, or options = None,
\* counts as on
On(k) == options.none \/ k \notin DOMAIN options.map \/ options.map[k]

ExpectedKeys ==
    {"basic_metrics", "time_analysis", "team_performance",
     "workload_distribution", "trend_analysis"}
    \cup (IF On("enable_sentiment_analysis") THEN {"sentiment_analysis"} ELSE {})
    \cup (IF On("enable_bottleneck_detection") THEN {"bottleneck_detection"} ELSE {})
    \cup (IF On("enable_predictive_analytics")
          THEN {"predictive_insights", "anomaly_detection"} ELSE {})

ExpectedOrder ==
    <<"basic_metrics", "time_analysis", "team_performance",
      "workload_distribution", "trend_analysis">>
    \o (IF On("enable_sentiment_analysis") THEN <<"sentiment_analysis">> ELSE <<>>)
    \o (IF On("enable_bottleneck_detection") THEN <<"bottleneck_detection">> ELSE <<>>)
    \o (IF On("enable_predictive_analytics")
        THEN <<"predictive_insights", "anomaly_detection">> ELSE <<>>)

IsPrefix(p, q) == Len(p) <= Len(q) /\ \A i \in 1..Len(p) : p[i] = q[i]

\* C1: a call with an empty issue list returns exactly
\* {"error": "No issues to analyze"} without raising, starts no sub-analysis,
\* and leaves resolution_model and anomaly_detector as they were.
C1_EmptyBatchShortCircuit ==
    /\ [](calls > 0 /\ Len(issues) = 0 =>
            /\ pc = "idle"
            /\ outcome = "returned"
            /\ exception = ""
            /\ results = [error |-> "No issues to analyze"]
            /\ started = <<>>
            /\ <<resolution_model, anomaly_detector>> = at_call)
    /\ [][calls' = calls + 1 /\ Len(issues') = 0 =>
            /\ resolution_model' = resolution_model
            /\ anomaly_detector' = anomaly_detector]_vars

\* C1 witness: an empty call was answered on an engine that holds a fitted
\* model from an earlier call.
C1_Witness ==
    /\ calls = 2 /\ Len(issues) = 0 /\ outcome = "returned"
    /\ resolution_model # NoModel

\* C2: for a non-empty batch analyze_issues never raises: a failing
\* sub-analysis appears under its own key as an error map and every other
\* enabled sub-analysis is still present in the returned map.
C2_FailuresStayLocal ==
    NonEmptyCall =>
        /\ outcome # "raised"
        /\ Finished => outcome = "returned" /\ DOMAIN results = ExpectedKeys

\* C3: for a non-empty batch the call yields a result whose keys are the
\* five unconditional analyses plus those of the options that are on, an
\* unset option (or options = None) counting as on.
C3_ResultKeys ==
    NonEmptyCall /\ Finished =>
        outcome = "returned" /\ DOMAIN results = ExpectedKeys

\* C4: within one call the sub-analyses are started one at a time in the
\* fixed order, a disabled one is never started, and a call that returns has
\* started every enabled one.
C4_FixedOrder ==
    /\ [](NonEmptyCall =>
            /\ IsPrefix(started, ExpectedOrder)
            /\ DOMAIN results \subseteq {started[i] : i \in 1..Len(started)}
            /\ pc \notin {"idle", "return"} => pc = ExpectedOrder[Len(started) + 1]
            /\ outcome = "returned" \/ pc = "return" => started = ExpectedOrder)
    /\ [][started' # started /\ calls' = calls =>
            \E x \in ExpectedKeys : started' = Append(started, x)]_vars

\* C4 witness: a call with sentiment off and the other options on returned,
\* having run bottleneck detection right after the trend analysis.
C4_Witness ==
    /\ Finished /\ outcome = "returned"
    /\ ~On("enable_sentiment_analysis")
    /\ Len(started) = 8
    /\ started[5] = "trend_analysis" /\ started[6] = "bottleneck_detection"
    /\ started[8] = "anomaly_detection"

\* what a call on a newly constructed engine gives for the same arguments
FreshTable == prepare_dataframe(issues, Now)

FreshValue(key) ==
    CASE key = "basic_metrics" -> calculate_basic_metrics(FreshTable)
      [] key = "time_analysis" -> analyze_time_patterns(FreshTable)
      [] key = "team_performance" -> analyze_team_performance(FreshTable, Now)
      [] key = "workload_distribution" -> analyze_workload_distribution(FreshTable)
      [] key = "trend_analysis" -> analyze_trends(FreshTable, Now)
      [] key = "sentiment_analysis" -> analyze_sentiment(FreshTable)
      [] key = "bottleneck_detection" -> detect_bottlenecks(FreshTable)
      [] key = "predictive_insights" ->
            predict_potential_blockers(FreshTable, NoModel).result
      [] key = "anomaly_detection" -> detect_anomalies(FreshTable, NoModel).result

FreshOutcome ==
    LET failing == {i \in 1..Len(ExpectedOrder) : IsRaise(FreshValue(ExpectedOrder[i]))}
        first == CHOOSE i \in failing : \A j \in failing : i <= j
    IN  IF Len(issues) = 0
        THEN <<"returned", "", [error |-> "No issues to analyze"]>>
        ELSE IF failing = {}
        THEN <<"returned", "", [k \in ExpectedKeys |-> FreshValue(k)]>>
        ELSE <<"raised", FreshValue(ExpectedOrder[first]).raised, <<>> >>

\* C5: whatever calls the engine served before, a call ends as the same
\* call on a newly constructed engine ends: same results map (or same
\* exception); nothing in it comes from a model left by an earlier call.
C5_NoCarryOver ==
    Finished => <<outcome, exception, results>> = FreshOutcome

\* C5 witness: a second call trained and scored with its own model while the
\* engine held the model fitted by the first call.
C5_Witness ==
    /\ Finished /\ calls = 2 /\ outcome = "returned"
    /\ at_call[1] # NoModel
    /\ "predictive_insights" \in DOMAIN results
    /\ ~IsError(results.predictive_insights)
    /\ results.predictive_insights.potential_blockers_scored_by # at_call[1]

\* the call's arguments, read directly
TotalRows == SumOver(issues, LAMBDA g : g.n)
Raw(i, f) == IF f \in DOMAIN issues[i].rec THEN issues[i].rec[f] ELSE NA
Usable(v) == v \in DOMAIN ParsedTimestamp
RowsWhere(P(_)) ==
    LET RECURSIVE S(_)
        S(i) == IF i = 0 THEN 0
                ELSE S(i - 1) + (IF P(i) THEN issues[i].n ELSE 0)
    IN  S(Len(issues))

RECURSIVE SumValues(_)
SumValues(f) ==
    IF DOMAIN f = {} THEN 0
    ELSE LET k == CHOOSE k \in DOMAIN f : TRUE
         IN  f[k] + SumValues([x \in DOMAIN f \ {k} |-> f[x]])

StatusOf(i) == IF Raw(i, "status") = NA THEN "Open" ELSE Raw(i, "status")

\* C6: basic_metrics.total_issues is the number of input records and the
\* status_distribution counts every one of them, a record without status
\* under "Open", so its values sum to total_issues.
C6_TotalAndStatusCounts ==
    NonEmptyCall /\ "basic_metrics" \in DOMAIN results =>
        LET bm == results.basic_metrics
            sd == bm.status_distribution
        IN  /\ bm.total_issues = TotalRows
            /\ SumValues(sd) = bm.total_issues
            /\ \A i \in 1..Len(issues) : StatusOf(i) \in DOMAIN sd
            /\ \A v \in DOMAIN sd : sd[v] = RowsWhere(LAMBDA i : StatusOf(i) = v)

\* C6 witness: a big and a single run of rows, some without any status and some with a status
\* other than "Open", have been counted.
C6_Witness ==
    /\ NonEmptyCall /\ "basic_metrics" \in DOMAIN results
    /\ results.basic_metrics.total_issues = BigRun + 1
    /\ \E i, j \in 1..Len(issues) :
          /\ "status" \notin DOMAIN issues[i].rec
          /\ Raw(j, "status") \notin {NA, "Open"}
          /\ results.basic_metrics.status_distribution["Open"] = issues[i].n

Resolved(i) == Usable(Raw(i, "created")) /\ Usable(Raw(i, "updated"))
ResolutionDays(i) ==
    (ParsedTimestamp[Raw(i, "updated")] - ParsedTimestamp[Raw(i, "created")]) \div 24
ResolvedRows == RowsWhere(Resolved)
ResolvedDaysSum ==
    LET RECURSIVE S(_)
        S(i) == IF i = 0 THEN 0
                ELSE S(i - 1) + (IF Resolved(i) THEN issues[i].n * ResolutionDays(i) ELSE 0)
    IN  S(Len(issues))
Abs(x) == IF x < 0 THEN -x ELSE x

\* C7: avg_resolution_days is the mean (to one decimal) and
\* median_resolution_days a median of the resolution days of exactly the rows
\* whose created and updated are both defined; both are 0 when there is no
\* such row.
C7_ResolutionStatsSkipNulls ==
    NonEmptyCall /\ "basic_metrics" \in DOMAIN results =>
        LET avg == results.basic_metrics.avg_resolution_days_x10
            med == results.basic_metrics.median_resolution_days_x10
        IN  IF ResolvedRows = 0 THEN avg = 0 /\ med = 0
            ELSE /\ 2 * Abs(avg * ResolvedRows - 10 * ResolvedDaysSum) <= ResolvedRows
                 /\ 2 * RowsWhere(LAMBDA i : Resolved(i) /\ 10 * ResolutionDays(i) <= med)
                      >= ResolvedRows
                 /\ 2 * RowsWhere(LAMBDA i : Resolved(i) /\ 10 * ResolutionDays(i) >= med)
                      >= ResolvedRows
                 /\ \E i \in 1..Len(issues), j \in 1..Len(issues) :
                       /\ Resolved(i) /\ Resolved(j)
                       /\ med = 5 * (ResolutionDays(i) + ResolutionDays(j))

\* C7 witness: the batch mixes rows with and without a defined resolution
\* time, and the statistics are not 0.
C7_Witness ==
    /\ NonEmptyCall /\ "basic_metrics" \in DOMAIN results
    /\ ResolvedRows > 0 /\ ResolvedRows < TotalRows
    /\ results.basic_metrics.avg_resolution_days_x10 > 0
    /\ results.basic_metrics.median_resolution_days_x10 > 0

\* C7 witness of the other case: the table has a resolution_days column
\* with no defined value, and both statistics are 0.
C7_WitnessNoneResolved ==
    /\ NonEmptyCall /\ "basic_metrics" \in DOMAIN results
    /\ "resolution_days" \in df.cols /\ ResolvedRows = 0
    /\ results.basic_metrics.avg_resolution_days_x10 = 0

\* C8: in the prepared table a row is overdue iff its age_days is greater
\* than 30 (not at exactly 30, not with an undefined age), and overdue_count
\* is the number of such rows.
C8_OverdueIffOlderThan30 ==
    NonEmptyCall =>
        /\ \A i \in 1..Len(df.rows) :
              df.rows[i].r.is_overdue
                <=> (df.rows[i].r.age_days # <<>> /\ df.rows[i].r.age_days[1] > 30)
        /\ "basic_metrics" \in DOMAIN results =>
              results.basic_metrics.overdue_count
                = SumOver(df.rows, LAMBDA g : IF g.r.age_days # <<>> /\ g.r.age_days[1] > 30
                                              THEN g.n ELSE 0)

\* C8 witness: a row aged exactly 30 days is not overdue, a row aged 31 days
\* is, and the overdue rows have been counted.
C8_Witness ==
    /\ NonEmptyCall /\ "basic_metrics" \in DOMAIN results
    /\ \E i, j \in 1..Len(df.rows) :
          /\ df.rows[i].r.age_days = <<30>> /\ ~df.rows[i].r.is_overdue
          /\ df.rows[j].r.age_days = <<31>> /\ df.rows[j].r.is_overdue
          /\ results.basic_metrics.overdue_count = df.rows[j].n

DefaultOf(f) ==
    CASE f = "assignee" -> "Unassigned"
      [] f = "priority" -> "Medium"
      [] f = "description" -> ""
      [] f = "status" -> "Open"

\* C9: in the prepared table every row has a status, priority, assignee and
\* description: the record's own value where it carried one, and else
\* "Open", "Medium", "Unassigned" and "".
C9_DefaultsFilled ==
    NonEmptyCall =>
        /\ Len(df.rows) = Len(issues)
        /\ \A i \in 1..Len(issues) :
              /\ df.rows[i].n = issues[i].n
              /\ \A f \in {"status", "priority", "assignee", "description"} :
                    /\ df.rows[i].r[f] # NA
                    /\ df.rows[i].r[f] =
                          IF Raw(i, f) = NA THEN DefaultOf(f) ELSE Raw(i, f)

\* C9 witness: one record carries none of the four fields, the next one
\* carries them all; the first got the defaults and the second kept its own.
C9_Witness ==
    /\ NonEmptyCall /\ Len(issues) = 2
    /\ DOMAIN issues[1].rec \cap {"status", "priority", "assignee", "description"} = {}
    /\ \A f \in {"status", "priority", "assignee", "description"} :
          /\ Raw(2, f) # NA
          /\ df.rows[2].r[f] = Raw(2, f)
          /\ df.rows[2].r[f] # DefaultOf(f)
          /\ df.rows[1].r[f] = DefaultOf(f)

\* C10: when no record has a usable created value (the field absent, None
\* or unparsable everywhere), the time pattern analysis does not raise and
\* gives the "no creation date data" error map.
C10_NoUsableCreationDate ==
    /\ NonEmptyCall
    /\ \A i \in 1..Len(issues) : ~Usable(Raw(i, "created"))
    /\ Len(started) >= 2 /\ started[Len(started)] = "time_analysis"
    => /\ outcome # "raised"
       /\ "time_analysis" \in DOMAIN results
       /\ results.time_analysis = [error |-> "No creation date data available"]

\* a sub-analysis has been called on its own and has ended
Ended(key) == pc = "idle" /\ started = <<key>>

Aggregators ==
    {"basic_metrics", "time_analysis", "team_performance", "workload_distribution",
     "trend_analysis", "sentiment_analysis", "bottleneck_detection"}

\* C11: called on the table _prepare_dataframe builds from an empty record
\* list, none of the seven aggregators raises, each returns a result, and
\* _calculate_basic_metrics returns all counts 0 and all distributions empty.
C11_EmptyTableAggregators ==
    \A key \in Aggregators :
        Ended(key) /\ Len(issues) = 0 =>
            /\ outcome = "returned"
            /\ key \in DOMAIN results
            /\ key = "basic_metrics" =>
                  /\ results[key].total_issues = 0
                  /\ results[key].overdue_count = 0
                  /\ results[key].status_distribution = <<>>
                  /\ results[key].priority_distribution = <<>>
                  /\ results[key].assignee_distribution = <<>>

\* the flags of one type that _detect_bottlenecks returned
Flags(type) ==
    SelectSeq(results.bottleneck_detection.bottlenecks_detected,
              LAMBDA b : b.type = type)

StatusRows(v) == RowsWhere(LAMBDA i : StatusOf(i) = v)

\* the Status Bottleneck flags are as C12 states them
StatusFlagsAsClaimed ==
    LET flags == Flags("Status Bottleneck")
        about(v) == {k \in 1..Len(flags) : flags[k].subject = v}
    IN  /\ \A k \in 1..Len(flags) :
              \E i \in 1..Len(issues) : flags[k].subject = StatusOf(i)
        /\ \A i \in 1..Len(issues) :
              LET v == StatusOf(i)
                  fires == /\ v \notin {"Done", "Closed", "Resolved"}
                           /\ 100 * StatusRows(v) > 40 * TotalRows
              IN  /\ Cardinality(about(v)) = IF fires THEN 1 ELSE 0
                  /\ \A k \in about(v) :
                        /\ flags[k].affected_count = StatusRows(v)
                        /\ flags[k].severity =
                              IF 100 * StatusRows(v) > 60 * TotalRows
                              THEN "High" ELSE "Medium"

\* some status of the batch is to be flagged
StatusFlagDue ==
    \E i \in 1..Len(issues) :
        /\ StatusOf(i) \notin {"Done", "Closed", "Resolved"}
        /\ 100 * StatusRows(StatusOf(i)) > 40 * TotalRows

\* C12: _detect_bottlenecks gives a "Status Bottleneck" flag for a status
\* iff the status is not Done/Closed/Resolved and holds strictly more than
\* 40% of the rows; its severity is "High" iff the share is strictly more
\* than 60% and else "Medium", its affected_count the rows in that status.
C12_StatusBottleneck ==
    Ended("bottleneck_detection") /\ Len(issues) > 0 =>
        /\ outcome = "returned" => StatusFlagsAsClaimed
        /\ StatusFlagDue => outcome = "returned"

\* C13: called with fewer than 10 rows, _predict_potential_blockers returns
\* the insufficient-data error map and trains nothing: resolution_model is
\* what it was before the call; 10 rows or more pass the size test.
C13_TooFewRowsNoTraining ==
    Ended("predictive_insights") =>
        /\ outcome = "returned"
        /\ TotalRows < 10 =>
              /\ results.predictive_insights
                    = [error |-> "Insufficient data for predictions"]
              /\ resolution_model = at_call[1]
        /\ TotalRows >= 10 =>
              results.predictive_insights
                 # [error |-> "Insufficient data for predictions"]

\* C13 witness: an engine holding a fitted model was asked for predictions
\* on 7 rows of both classes, answered with the error and still holds that
\* model.
C13_Witness ==
    /\ Ended("predictive_insights")
    /\ TotalRows = MidRun + 1
    /\ ~OneClass(df)
    /\ IsError(results.predictive_insights)
    /\ at_call[1] # NoModel
    /\ resolution_model = at_call[1]

\* C13 witness of the boundary: exactly 10 rows were trained on.
C13_WitnessTenRows ==
    /\ Ended("predictive_insights")
    /\ TotalRows = 10
    /\ ~IsError(results.predictive_insights)
    /\ resolution_model # at_call[1]

\* some record of the batch carries the field, so the table has the column
Carried(f) == \E i \in 1..Len(issues) : f \in DOMAIN issues[i].rec

\* rows whose proxy label is_blocker is true
Positives == CountWhere(df, LAMBDA r : is_blocker(df, r))

\* C14: for 10 or more issue records (with their key and summary) whose
\* proxy label has one class only, all positive or all negative,
\* _predict_potential_blockers returns the insufficient-class-diversity
\* error and leaves resolution_model as it was; with both classes present it
\* fits a model on the batch, keeps it in resolution_model and returns
\* potential_blockers, feature_importance and predictions_made = row count.
C14_ClassDiversityGuard ==
    /\ Ended("predictive_insights")
    /\ TotalRows >= 10 /\ Carried("key") /\ Carried("summary")
    => /\ outcome = "returned"
       /\ IF Positives = 0 \/ Positives = TotalRows
          THEN /\ results.predictive_insights
                     = [error |-> "Insufficient class diversity for prediction"]
               /\ resolution_model = at_call[1]
          ELSE /\ {"potential_blockers_scored_by", "feature_importance_of",
                   "predictions_made"} \subseteq DOMAIN results.predictive_insights
               /\ results.predictive_insights.predictions_made = TotalRows
               /\ resolution_model.kind = "RandomForestRegressor"
               /\ Len(resolution_model.X_y) = Len(issues)
               /\ \A i \in 1..Len(issues) :
                     /\ resolution_model.X_y[i].n = issues[i].n
                     /\ resolution_model.X_y[i].is_blocker
                           = is_blocker(df, df.rows[i].r)
               /\ results.predictive_insights.potential_blockers_scored_by
                     = resolution_model

\* C14 witness: ten never-updated rows were all labelled positive by their
\* age; the engine answered with the error and still holds the model it
\* held before.
C14_Witness ==
    /\ Ended("predictive_insights")
    /\ TotalRows >= 10 /\ Positives = TotalRows
    /\ IsError(results.predictive_insights)
    /\ at_call[1] # NoModel /\ resolution_model = at_call[1]

\* C14 witness of the other case: rows of both classes were trained on and
\* the model the engine held was replaced.
C14_WitnessBothClasses ==
    /\ Ended("predictive_insights")
    /\ TotalRows >= 10 /\ Positives > 0 /\ Positives < TotalRows
    /\ results.predictive_insights.predictions_made = TotalRows
    /\ at_call[1] # NoModel /\ resolution_model # at_call[1]

\* the numeric features the batch gives a value for in at least one row
UsableFeatures ==
    {f \in {"age_days", "resolution_days", "summary_length"} :
        \E i \in 1..Len(issues) :
            CASE f = "age_days" -> Usable(Raw(i, "created"))
              [] f = "resolution_days" -> Resolved(i)
              [] f = "summary_length" -> Raw(i, "summary") # NA}

\* C15: _detect_anomalies returns the insufficient-features error, and fits
\* no outlier model, whenever fewer than 2 of age_days, resolution_days and
\* summary_length are usable for the batch; it fits the model only when at
\* least 2 are.
C15_InsufficientFeatures ==
    Ended("anomaly_detection") /\ Len(issues) > 0 =>
        /\ outcome = "returned"
        /\ Cardinality(UsableFeatures) < 2 =>
              /\ results.anomaly_detection
                    = [error |-> "Insufficient numeric features for anomaly detection"]
              /\ anomaly_detector = at_call[2]

\* the summary and the description of record i are both the empty string
\* (a description that is missing was filled with "")
NoText(i) == Raw(i, "summary") = "" /\ Raw(i, "description") \in {"", NA}

\* C16: for issue records (with their key and summary) _analyze_sentiment
\* labels a row "Positive" iff its polarity is strictly above 0.1,
\* "Negative" iff strictly below -0.1 and "Neutral" otherwise; a row without
\* any text has polarity 0 and is "Neutral", a row with text has the
\* scorer's polarity; stress_indicators is the number of "Negative" rows.
C16_SentimentLabels ==
    Ended("sentiment_analysis") /\ Carried("key") /\ Carried("summary") =>
        /\ outcome = "returned"
        /\ Len(df.rows) = Len(issues)
        /\ \A i \in 1..Len(issues) :
              LET p == df.rows[i].r.sentiment_polarity
                  label == df.rows[i].r.sentiment
              IN  /\ label \in {"Positive", "Negative", "Neutral"}
                  /\ label = "Positive" <=> p > 100
                  /\ label = "Negative" <=> p < -100
                  /\ NoText(i) => p = 0 /\ label = "Neutral"
                  /\ ~NoText(i) =>
                        p = polarity_x1000(df.rows[i].r.summary,
                                           df.rows[i].r.description)
        /\ results.sentiment_analysis.stress_indicators
              = SumOver(df.rows, LAMBDA g : IF g.r.sentiment_polarity < -100
                                            THEN g.n ELSE 0)

\* C16 witness: a row whose polarity is exactly 0.1 was labelled "Neutral"
\* next to a negative row, which alone was counted as a stress indicator.
C16_Witness ==
    /\ Ended("sentiment_analysis") /\ outcome = "returned" /\ Len(issues) = 2
    /\ df.rows[1].r.sentiment_polarity = 100 /\ df.rows[1].r.sentiment = "Neutral"
    /\ df.rows[2].r.sentiment_polarity < -100 /\ df.rows[2].r.sentiment = "Negative"
    /\ results.sentiment_analysis.stress_indicators = issues[2].n

\* C16 witness of the empty text: a row without text and a row whose
\* polarity is exactly -0.1 are both "Neutral"; there is no stress indicator.
C16_WitnessNoText ==
    /\ Ended("sentiment_analysis") /\ outcome = "returned" /\ Len(issues) = 2
    /\ NoText(1) /\ df.rows[1].r.sentiment = "Neutral"
    /\ df.rows[2].r.sentiment_polarity = -100 /\ df.rows[2].r.sentiment = "Neutral"
    /\ results.sentiment_analysis.stress_indicators = 0

\* C17: a row whose created timestamp is missing (absent, None or
\* unparsable) has age_days 0 and is not overdue, also next to rows that
\* have one.
C17_MissingCreatedAgeZero ==
    NonEmptyCall =>
        \A i \in 1..Len(issues) :
            ~Usable(Raw(i, "created")) =>
                /\ df.rows[i].r.age_days = <<0>>
                /\ ~df.rows[i].r.is_overdue

\* whole days of h hours, truncated toward zero
TruncatedDays(h) == IF h >= 0 THEN h \div 24 ELSE -((-h) \div 24)

\* C18: resolution_days is updated - created and age_days is now - created,
\* both in whole days truncated toward zero, also when updated is earlier
\* than created; resolution_days is null iff created or updated is missing.
C18_WholeDayTruncation ==
    NonEmptyCall =>
        \A i \in 1..Len(issues) :
            /\ Usable(Raw(i, "created")) =>
                  df.rows[i].r.age_days
                     = <<TruncatedDays(Now - ParsedTimestamp[Raw(i, "created")])>>
            /\ Resolved(i) =>
                  /\ "resolution_days" \in df.cols
                  /\ df.rows[i].r.resolution_days
                        = <<TruncatedDays(ParsedTimestamp[Raw(i, "updated")]
                                          - ParsedTimestamp[Raw(i, "created")])>>
            /\ ~Resolved(i) =>
                  \/ "resolution_days" \notin df.cols
                  \/ df.rows[i].r.resolution_days = <<>>

AssigneeOf(i) == IF Raw(i, "assignee") = NA THEN "Unassigned" ELSE Raw(i, "assignee")
AssigneeRows(a) == RowsWhere(LAMBDA i : AssigneeOf(i) = a)
Team == {AssigneeOf(i) : i \in 1..Len(issues)} \ {"Unassigned"}
AssignedRows == RowsWhere(LAMBDA i : AssigneeOf(i) # "Unassigned")

\* C19: for a batch with at least one assignee, _detect_bottlenecks gives
\* an "Assignee Overload" flag for an assignee iff it is not "Unassigned"
\* and holds strictly more than 2 times the mean number of issues per
\* assignee, the mean of the assigned issues over the assignees; severity
\* is "High" iff it holds strictly more than 3 times that mean, and else
\* "Medium".  Unassigned issues do not change the flags.
C19_AssigneeOverload ==
    Ended("bottleneck_detection") /\ Team # {} =>
        /\ outcome = "returned"
        /\ LET flags == Flags("Assignee Overload")
               about(a) == {k \in 1..Len(flags) : flags[k].subject = a}
               size == Cardinality(Team)
           IN  /\ \A k \in 1..Len(flags) : flags[k].subject \in Team
               /\ \A a \in Team :
                     /\ Cardinality(about(a)) =
                           IF AssigneeRows(a) * size > 2 * AssignedRows THEN 1 ELSE 0
                     /\ \A k \in about(a) :
                           /\ flags[k].affected_count = AssigneeRows(a)
                           /\ flags[k].severity =
                                 IF AssigneeRows(a) * size > 3 * AssignedRows
                                 THEN "High" ELSE "Medium"

\* rows older than 60 days
OldRows ==
    RowsWhere(LAMBDA i : /\ Usable(Raw(i, "created"))
                         /\ (Now - ParsedTimestamp[Raw(i, "created")]) \div 24 > 60)

\* the Aging Issues flags are as C20 states them
AgingFlagAsClaimed ==
    LET flags == Flags("Aging Issues")
    IN  /\ Len(flags) = IF OldRows > 0 THEN 1 ELSE 0
        /\ \A k \in 1..Len(flags) :
              flags[k].severity = "Medium" /\ flags[k].affected_count = OldRows

\* C20: _detect_bottlenecks gives one "Aging Issues" flag, of severity
\* "Medium" and with the number of rows older than 60 days as
\* affected_count, iff some row is older than 60 days (exactly 60 days is
\* not older), and never more than one.
C20_AgingIssues ==
    Ended("bottleneck_detection") /\ Len(issues) > 0 =>
        /\ outcome = "returned" => AgingFlagAsClaimed
        /\ OldRows > 0 => outcome = "returned"

---------------------------------------------------------------------------
(* C21: the High Priority Delays flag and the two counts.                  *)

PriorityOf(i) == IF Raw(i, "priority") = NA THEN "Medium" ELSE Raw(i, "priority")

\* rows of high, critical or urgent priority that are older than 14 days
DelayedRows ==
    RowsWhere(LAMBDA i : /\ PriorityOf(i) \in {"High", "Critical", "Urgent"}
                         /\ Usable(Raw(i, "created"))
                         /\ (Now - ParsedTimestamp[Raw(i, "created")]) \div 24 > 14)

\* the High Priority Delays flag and the counts are as C21 states them
DelayFlagAsClaimed ==
    LET all == results.bottleneck_detection.bottlenecks_detected
        flags == Flags("High Priority Delays")
    IN  /\ Len(flags) = IF DelayedRows > 0 THEN 1 ELSE 0
        /\ \A k \in 1..Len(flags) :
              flags[k].severity = "Critical" /\ flags[k].affected_count = DelayedRows
        /\ results.bottleneck_detection.critical_count
             = Cardinality({k \in 1..Len(all) : all[k].severity = "Critical"})
        /\ results.bottleneck_detection.bottleneck_count = Len(all)

\* C21: _detect_bottlenecks gives exactly one "High Priority Delays" flag,
\* of severity "Critical", iff some row has a priority of High, Critical or
\* Urgent and is older than 14 days, whatever other flags are given;
\* critical_count is the number of flags of severity "Critical" and
\* bottleneck_count is the number of flags.
C21_HighPriorityDelays ==
    Ended("bottleneck_detection") /\ Len(issues) > 0 =>
        /\ outcome = "returned" => DelayFlagAsClaimed
        /\ DelayedRows > 0 => outcome = "returned"

---------------------------------------------------------------------------
(* C22: the recommendations of bottleneck_detection.                       *)

AdviceFor(type) ==
    CASE type = "Status Bottleneck" -> "Review workflow - consider breaking down tasks"
      [] type = "Assignee Overload" -> "Redistribute workload"
      [] type = "Aging Issues" ->
            "Review and prioritize old issues - consider closing obsolete ones"
      [] type = "High Priority Delays" ->
            "Urgent: Review high priority issues that are delayed"

\* C22: the recommendations of bottleneck_detection hold one advisory
\* string per flag, in the order of the flags, followed by the sprint
\* planning review recommendation iff there are more than 3 flags (not at
\* exactly 3): their number is the number of flags, plus 1 above 3 flags.
C22_Recommendations ==
    Ended("bottleneck_detection") /\ outcome = "returned" =>
        LET flags == results.bottleneck_detection.bottlenecks_detected
            recs == results.bottleneck_detection.recommendations
        IN  /\ Len(recs) = Len(flags) + (IF Len(flags) > 3 THEN 1 ELSE 0)
            /\ \A k \in 1..Len(flags) :
                  /\ recs[k].advice = AdviceFor(flags[k].type)
                  /\ flags[k].type \in {"Status Bottleneck", "Assignee Overload"}
                        => recs[k].about = flags[k].subject
            /\ Len(flags) > 3 =>
                  recs[Len(recs)].advice
                    = "Consider sprint planning review to address multiple bottlenecks"

\* exactly 3 flags, and 3 recommendations
C22_Witness ==
    /\ Ended("bottleneck_detection") /\ outcome = "returned"
    /\ Len(results.bottleneck_detection.bottlenecks_detected) = 3
    /\ Len(results.bottleneck_detection.recommendations) = 3

\* 4 flags of different types, and 5 recommendations
C22_WitnessManyFlags ==
    /\ Ended("bottleneck_detection") /\ outcome = "returned"
    /\ Len(results.bottleneck_detection.bottlenecks_detected) = 4
    /\ Len(results.bottleneck_detection.recommendations) = 5
    /\ Len(Flags("Status Bottleneck")) = 2

---------------------------------------------------------------------------
(* C23: the proxy label of _predict_potential_blockers.                    *)

\* some row of the table has a defined resolution_days
ObservedResolution ==
    "resolution_days" \in df.cols /\ NRows(Present(df, "resolution_days")) > 0

\* the label of a row as C23 states it
ClaimedBlocker(r) ==
    IF ObservedResolution
    THEN /\ ~IsNull(r.resolution_days)
         /\ 4 * Val(r.resolution_days)
              > Quantile75X4(Present(df, "resolution_days"), "resolution_days")
    ELSE GreaterThan(r.age_days, 30)

ClaimedPositives == CountWhere(df, ClaimedBlocker)

\* C23: for 10 or more issue records (with their key and summary),
\* _predict_potential_blockers labels a row a blocker iff its
\* resolution_days is above the 75th percentile of the defined
\* resolution_days when some row has a defined resolution_days, and iff its
\* age_days is above 30 when no row has one, also when the created and
\* updated fields exist and every difference is null: with both labels
\* present the model is fitted on these labels, and with one label only the
\* class-diversity error is returned.
C23_BlockerLabel ==
    /\ Ended("predictive_insights")
    /\ TotalRows >= 10 /\ Carried("key") /\ Carried("summary")
    => IF ClaimedPositives = 0 \/ ClaimedPositives = TotalRows
       THEN results.predictive_insights
                = [error |-> "Insufficient class diversity for prediction"]
       ELSE /\ "predictions_made" \in DOMAIN results.predictive_insights
            /\ resolution_model.kind = "RandomForestRegressor"
            /\ \A i \in 1..Len(df.rows) :
                  resolution_model.X_y[i].is_blocker = ClaimedBlocker(df.rows[i].r)

\* the same for the batches in which the label of the code is defined by
\* the presence of the resolution_days column alone
C23_ExceptAllNull ==
    /\ Ended("predictive_insights")
    /\ TotalRows >= 10 /\ Carried("key") /\ Carried("summary")
    /\ "resolution_days" \in df.cols => ObservedResolution
    => IF ClaimedPositives = 0 \/ ClaimedPositives = TotalRows
       THEN results.predictive_insights
                = [error |-> "Insufficient class diversity for prediction"]
       ELSE /\ "predictions_made" \in DOMAIN results.predictive_insights
            /\ resolution_model.kind = "RandomForestRegressor"
            /\ \A i \in 1..Len(df.rows) :
                  resolution_model.X_y[i].is_blocker = ClaimedBlocker(df.rows[i].r)

---------------------------------------------------------------------------
(* C24: team_mood.                                                         *)

\* the sum of the polarities of the rows, in thousandths
PolaritySum == SumOver(df.rows, LAMBDA g : g.n * RowPolarity(df, g.r))

\* C24: for issue records that carry their key and summary, team_mood is
\* "Good" iff the mean polarity is above 0.05, "Concerning" iff it is below
\* -0.05 and "Neutral" otherwise: a mean of exactly 0.05 and a mean of
\* exactly -0.05 are both "Neutral".
C24_TeamMood ==
    /\ Ended("sentiment_analysis")
    /\ Len(issues) > 0 /\ Carried("key") /\ Carried("summary")
    => /\ outcome = "returned"
       /\ results.sentiment_analysis.team_mood =
             IF PolaritySum > 50 * TotalRows THEN "Good"
             ELSE IF PolaritySum < -50 * TotalRows THEN "Concerning"
             ELSE "Neutral"

\* the same away from a mean of exactly -0.05
C24_ExceptLowerBoundary ==
    /\ Ended("sentiment_analysis")
    /\ Len(issues) > 0 /\ Carried("key") /\ Carried("summary")
    /\ PolaritySum # -50 * TotalRows
    => /\ outcome = "returned"
       /\ results.sentiment_analysis.team_mood =
             IF PolaritySum > 50 * TotalRows THEN "Good"
             ELSE IF PolaritySum < -50 * TotalRows THEN "Concerning"
             ELSE "Neutral"

\* a mean of exactly 0.05 was answered with "Neutral"
C24_UpperBoundaryNeutral ==
    /\ Ended("sentiment_analysis") /\ outcome = "returned"
    /\ Len(issues) > 0 /\ PolaritySum = 50 * TotalRows
    /\ results.sentiment_analysis.team_mood = "Neutral"

---------------------------------------------------------------------------
(* C25: team_performance.individual_metrics.                               *)

\* for the rows of assignee a that satisfy P: their number, and the sum of
\* their resolution_days
RowsOf(a, P(_)) == RowsWhere(LAMBDA i : AssigneeOf(i) = a /\ P(i))
ResolvedDaysOf(a) ==
    LET RECURSIVE S(_)
        S(i) == IF i = 0 THEN 0
                ELSE S(i - 1) + (IF AssigneeOf(i) = a /\ Resolved(i)
                                 THEN issues[i].n * ResolutionDays(i) ELSE 0)
    IN  S(Len(issues))

\* avg_resolution_days of assignee a as C25 states it, in tenths
ClaimedAvgResolutionX10(a) ==
    IF RowsOf(a, Resolved) = 0 THEN 0
    ELSE RoundDiv(10 * ResolvedDaysOf(a), RowsOf(a, Resolved))

\* the metrics of assignee a are as C25 states them
MetricsAsClaimed(a) ==
    LET m == results.team_performance.individual_metrics[a]
        open == RowsOf(a, LAMBDA i : StatusOf(i) \in {"Open", "In Progress", "To Do"})
    IN  /\ m.total_assigned = RowsOf(a, LAMBDA i : TRUE)
        /\ m.open_issues = open
        /\ m.workload_score = m.total_assigned + 2 * open
        /\ m.avg_resolution_days_x10 = Some(ClaimedAvgResolutionX10(a))

\* C25: individual_metrics has one entry per assignee other than
\* "Unassigned"; avg_resolution_days is the mean of the assignee's defined
\* resolution_days, and the number 0 when the assignee has none, with or
\* without a resolution_days column; workload_score is total_assigned plus
\* twice open_issues, the issues in status Open, In Progress or To Do.
C25_IndividualMetrics ==
    Ended("team_performance") /\ Len(issues) > 0 =>
        /\ outcome = "returned"
        /\ DOMAIN results.team_performance.individual_metrics = Team
        /\ \A a \in Team : MetricsAsClaimed(a)

\* the same for the assignees that have a defined resolution_days, and for
\* tables without a resolution_days column
C25_ExceptNoData ==
    Ended("team_performance") /\ Len(issues) > 0 =>
        /\ outcome = "returned"
        /\ DOMAIN results.team_performance.individual_metrics = Team
        /\ \A a \in Team :
              RowsOf(a, Resolved) > 0 \/ "resolution_days" \notin df.cols
                 => MetricsAsClaimed(a)

---------------------------------------------------------------------------
(* C26: team_performance.best_performer.                                   *)

\* the assignees with a positive average resolution time
PositiveAvg == {a \in Team : RowsOf(a, Resolved) > 0 /\ ClaimedAvgResolutionX10(a) > 0}

\* C26: best_performer, when it names somebody, names an assignee whose
\* avg_resolution_days is positive and the least of the positive ones; an
\* assignee with a zero average or without resolution data is never named,
\* also when no assignee has a positive average.
C26_BestPerformer ==
    Ended("team_performance") /\ Len(issues) > 0 =>
        /\ outcome = "returned"
        /\ results.team_performance.best_performer # NA =>
              LET best == results.team_performance.best_performer
              IN  /\ best \in PositiveAvg
                  /\ \A b \in PositiveAvg :
                        ClaimedAvgResolutionX10(best) <= ClaimedAvgResolutionX10(b)

\* the same for the batches in which some assignee has a positive average
C26_WhenSomePositive ==
    Ended("team_performance") /\ PositiveAvg # {} =>
        /\ outcome = "returned"
        /\ LET best == results.team_performance.best_performer
           IN  /\ best \in PositiveAvg
               /\ \A b \in PositiveAvg :
                     ClaimedAvgResolutionX10(best) <= ClaimedAvgResolutionX10(b)

---------------------------------------------------------------------------
(* C27: the options do not interfere.                                      *)

Always ==
    {"basic_metrics", "time_analysis", "team_performance",
     "workload_distribution", "trend_analysis"}

\* with only the option of sub-analysis k switched on, the call returns:
\* neither one of the five unconditional sub-analyses nor k itself raises
ReturnsAlone(k) == \A j \in Always \cup {k} : ~IsRaise(FreshValue(j))

\* the rows and the canonical fields of the table are those of the table
\* as it was prepared
CanonicalKept ==
    /\ Len(df.rows) = Len(FreshTable.rows)
    /\ \A i \in 1..Len(df.rows) :
          /\ df.rows[i].n = FreshTable.rows[i].n
          /\ \A f \in {"status", "priority", "assignee", "age_days", "resolution_days"}
                    \cap FreshTable.cols :
                f \in df.cols /\ df.rows[i].r[f] = FreshTable.rows[i].r[f]

\* C27: for a batch of issue records (with their key and summary) and a
\* clock, the result of a sub-analysis is the same whichever other optional
\* sub-analyses are switched on: whenever the call with this sub-analysis
\* alone returns, every call that has it switched on returns its result as
\* computed from the prepared table.  No sub-analysis changes the number of
\* rows or the fields status, priority, assignee, age_days and
\* resolution_days of the shared table.
C27_OptionNonInterference ==
    NonEmptyCall =>
        /\ CanonicalKept
        /\ Finished /\ Carried("key") /\ Carried("summary") =>
              \A k \in ExpectedKeys :
                  ReturnsAlone(k) =>
                      /\ outcome = "returned"
                      /\ k \in DOMAIN results
                      /\ results[k] = FreshValue(k)

\* the same for the calls that return
C27_WhenReturned ==
    NonEmptyCall =>
        /\ CanonicalKept
        /\ Finished /\ outcome = "returned" =>
              \A k \in ExpectedKeys :
                  k \in DOMAIN results /\ results[k] = FreshValue(k)

---------------------------------------------------------------------------
(* C28: bounds on the flags of one result.                                 *)

RECURSIVE AffectedSum(_)
AffectedSum(flags) ==
    IF Len(flags) = 0 THEN 0
    ELSE flags[1].affected_count + AffectedSum(Tail(flags))

\* C28: a bottleneck_detection result has at most two "Status Bottleneck"
\* flags, at most one of them of severity "High", and their affected_count
\* sum to no more than the number of rows; at most one flag of the whole
\* list has severity "Critical", so critical_count is 0 or 1.
C28_FlagBounds ==
    Ended("bottleneck_detection") /\ outcome = "returned" =>
        LET all == results.bottleneck_detection.bottlenecks_detected
            status == Flags("Status Bottleneck")
        IN  /\ Len(status) <= 2
            /\ Cardinality({k \in 1..Len(status) : status[k].severity = "High"}) <= 1
            /\ AffectedSum(status) <= TotalRows
            /\ Cardinality({k \in 1..Len(all) : all[k].severity = "Critical"}) <= 1
            /\ results.bottleneck_detection.critical_count \in {0, 1}

\* two Status Bottleneck flags that cover every row, next to a Critical flag
C28_Witness ==
    /\ Ended("bottleneck_detection") /\ outcome = "returned"
    /\ Len(Flags("Status Bottleneck")) = 2
    /\ AffectedSum(Flags("Status Bottleneck")) = TotalRows
    /\ results.bottleneck_detection.critical_count = 1

\* one Status Bottleneck flag of severity "High"
C28_WitnessHigh ==
    /\ Ended("bottleneck_detection") /\ outcome = "returned"
    /\ \E k \in 1..Len(Flags("Status Bottleneck")) :
          Flags("Status Bottleneck")[k].severity = "High"

---------------------------------------------------------------------------
(* C29: trend_analysis.trend_direction.                                    *)

\* the ISO week numbers of the usable created timestamps of the batch, and
\* the number of rows created in week number w
Dated(i) == Usable(Raw(i, "created"))
WeekOf(i) == isoweek(ParsedTimestamp[Raw(i, "created")])
Weeks == {WeekOf(i) : i \in {j \in 1..Len(issues) : Dated(j)}}
CreatedInWeek(w) == RowsWhere(LAMBDA i : Dated(i) /\ WeekOf(i) = w)

\* the highest week number, and the first of the (up to) four highest
HighestWeek == CHOOSE w \in Weeks : \A v \in Weeks : v <= w
FirstOfFour ==
    CHOOSE w \in Weeks :
        /\ Cardinality({v \in Weeks : v > w}) < 4
        /\ \A v \in Weeks : v < w => Cardinality({u \in Weeks : u > v}) >= 4

C29_WitnessTwoYears ==
    /\ Ended("trend_analysis") /\ outcome = "returned"
    /\ \E i, j \in 1..Len(issues) :
          /\ Dated(i) /\ Dated(j)
          /\ year(ParsedTimestamp[Raw(i, "created")])
               # year(ParsedTimestamp[Raw(j, "created")])
    /\ Cardinality(Weeks) = 1
    /\ results.trend_analysis.trend_direction = "Stable"

\* equal counts in the two weeks compared: "Decreasing"
C29_WitnessEqual ==
    /\ Ended("trend_analysis") /\ outcome = "returned"
    /\ Cardinality(Weeks) >= 2
    /\ CreatedInWeek(HighestWeek) = CreatedInWeek(FirstOfFour)
    /\ results.trend_analysis.trend_direction = "Decreasing"

---------------------------------------------------------------------------
(* C30: workload_distribution.                                             *)

IsOpen(i) == StatusOf(i) \in {"Open", "In Progress", "To Do", "New"}
OpenOf(a) == RowsOf(a, IsOpen)

\* the assignees, other than "Unassigned", that hold an open issue
Loaded == {a \in Team : OpenOf(a) > 0}

RECURSIVE OpenSum(_, _)
OpenSum(A, power) ==
    IF A = {} THEN 0
    ELSE LET a == CHOOSE x \in A : TRUE
         IN  (IF power = 2 THEN OpenOf(a) * OpenOf(a) ELSE OpenOf(a))
             + OpenSum(A \ {a}, power)

\* k * k times the population variance of the open counts of the k loaded
\* assignees
LoadedSpread ==
    Cardinality(Loaded) * OpenSum(Loaded, 2) - OpenSum(Loaded, 1) * OpenSum(Loaded, 1)

\* C30: _analyze_workload_distribution returns
\* {"error": "No assigned issues found"} iff no row in status Open,
\* In Progress, To Do or New has an assignee other than "Unassigned";
\* otherwise total_open_issues counts every open row, the unassigned ones
\* too, the average and the deviation are those of the open counts of the
\* assignees other than "Unassigned", overloaded_members and
\* underloaded_members are disjoint sets of these assignees, and both are
\* empty when all of them hold the same number of open issues.
C30_WorkloadDistribution ==
    Ended("workload_distribution") /\ Len(issues) > 0 =>
        /\ outcome = "returned"
        /\ LET w == results.workload_distribution
               k == Cardinality(Loaded)
           IN  /\ w = [error |-> "No assigned issues found"] <=> Loaded = {}
               /\ Loaded # {} =>
                     /\ w.total_open_issues = RowsWhere(IsOpen)
                     /\ w.avg_workload_per_person_x10
                          = RoundDiv(10 * OpenSum(Loaded, 1), k)
                     \* the deviation in tenths is sqrt(spread) / k * 10, rounded
                     /\ (2 * w.workload_std_dev_x10 - 1) * (2 * w.workload_std_dev_x10 - 1)
                            * k * k <= 400 * LoadedSpread
                        \/ w.workload_std_dev_x10 = 0
                     /\ 400 * LoadedSpread
                          < (2 * w.workload_std_dev_x10 + 1) * (2 * w.workload_std_dev_x10 + 1)
                               * k * k
                     /\ DOMAIN w.overloaded_members \subseteq Loaded
                     /\ DOMAIN w.underloaded_members \subseteq Loaded
                     /\ DOMAIN w.overloaded_members \cap DOMAIN w.underloaded_members = {}
                     /\ (\A a, b \in Loaded : OpenOf(a) = OpenOf(b)) =>
                           /\ DOMAIN w.overloaded_members = {}
                           /\ DOMAIN w.underloaded_members = {}

\* three assignees and unassigned open issues: one assignee is overloaded,
\* and the unassigned issues are counted in total_open_issues only
C30_Witness ==
    /\ Ended("workload_distribution") /\ outcome = "returned"
    /\ Cardinality(Loaded) = 3
    /\ RowsWhere(LAMBDA i : IsOpen(i) /\ AssigneeOf(i) = "Unassigned") > 0
    /\ results.workload_distribution.total_open_issues > OpenSum(Loaded, 1)
    /\ DOMAIN results.workload_distribution.overloaded_members # {}

\* only unassigned issues are open: the error map
C30_WitnessError ==
    /\ Ended("workload_distribution") /\ outcome = "returned"
    /\ RowsWhere(IsOpen) > 0 /\ Loaded = {}
    /\ IsError(results.workload_distribution)

\* an underloaded assignee
C30_WitnessUnderloaded ==
    /\ Ended("workload_distribution") /\ outcome = "returned"
    /\ ~IsError(results.workload_distribution)
    /\ DOMAIN results.workload_distribution.underloaded_members # {}

\* three assignees with the same number of open issues
C30_WitnessBalanced ==
    /\ Ended("workload_distribution") /\ outcome = "returned"
    /\ Cardinality(Loaded) = 3
    /\ \A a, b \in Loaded : OpenOf(a) = OpenOf(b)
    /\ results.workload_distribution.balance_rating = "Good"

=============================================================================
